---- MODULE Spec2Model ----
(***************************************************************************)
(* Viewport-adaptive LOD feature streaming of the boundaries viewer:       *)
(* FeatureLoader (src/unnamed/part_001, feature-loader.js) and the LOD     *)
(* part of MapController (src/unnamed/part_002, map-controller.js).        *)
(*                                                                         *)
(* A resource key is the triple <<mapId, index, lod>>.  The code encodes   *)
(* it twice, as cacheKey `${mapId}:${index}:${lod}` and as the url         *)
(* data/features/${mapId}/${index}-lod-${lod}.json; both encodings are     *)
(* injective on the triples used here (map ids hold no ':' and no '/'),    *)
(* so both tables are keyed by the triple.  The payload of a key is the    *)
(* static file at its url: the geojson of feature index of mapId at lod.   *)
(*                                                                         *)
(* JavaScript runs each handler to its next await without interleaving;    *)
(* every action below is one such run.  A suspended loadFeatures call is   *)
(* a record of tasks; a network fetch in flight is a member of fetches.    *)
(***************************************************************************)
EXTENDS Integers, Sequences, FiniteSets, Bags, TLC

\* ------------------------------------------------------------------ sizes
\* const CONCURRENT_LOADS = 50 (part_001:7), and batchSize = 50 of
\* loadLayerWithLOD (part_002:517).  The pure slicing below is checked with 50;
\* the state machine runs with BatchWidth, the same constant scaled down so
\* that whole batches of fetches in flight fit the explored state space.
CONCURRENT_LOADS == 50
BatchWidth == 2
\* Promise generations kept apart per key (the code never needs more than one).
MaxGen == 2
\* Longest index list the slicing is checked for.
MaxSlice == 120

Maps == <<"a", "b">>
MapIds == {Maps[k] : k \in 1..Len(Maps)}
LODs == 0..2
\* Feature indices that are ever requested, per dataset.
NearIdx(m) == IF m = "a" THEN 0..2 ELSE 0..0
Keys == {<<m, i, l>> : m \in MapIds, i \in 0..2, l \in LODs} \ {<<"b", i, l>> : i \in 1..2, l \in LODs}
FetchIds == Keys \X (1..MaxGen)

KeyOf(m, index, lod) == <<m, index, lod>>

\* ------------------------------------------------------------- variables
VARIABLES
    loadedFeatures,   \* FeatureLoader.loadedFeatures: the keys holding a payload
    pendingLoads,     \* FeatureLoader.pendingLoads: key -> generation of its promise, 0 = no entry
    fetches,          \* network operations in flight: <<key, generation>>
    tasks,            \* loadFeatures calls, by caller
    lastFailed,       \* history: keys whose latest fetch failed and that were not requested since
    view,             \* map.getBounds(): <<west, south, east, north>>
    zoom,             \* map.getZoom()
    layerStates,      \* MapController.layerStates: mapId -> layer state
    lodLayers,        \* MapController.lodLayers, in insertion order
    currentLOD,       \* MapController.currentLOD: mapId -> level, -1 = no entry
    passes,           \* suspended updateLODLayers calls
    loads,            \* suspended loadLayerWithLOD calls, by mapId
    events,           \* number of moveend/zoomend handler runs so far
    rebuilt,          \* history: the LOD rebuilds made by the latest step
    cleared,          \* history: the datasets whose clearMap ran in the latest step
    allLabels,        \* the label entries of the loaded visible layers, as updateLabels collects them
    labelsEnabled,    \* MapController.labelsEnabled
    textScale,        \* MapController.textScale, in percent
    labelMarkers,     \* MapController.labelMarkers: the labels on the map, in placement order
    labelError,       \* whether the latest updateLabels call threw
    labelsBefore,     \* history: labelMarkers as the latest updateLabels call found it
    query,            \* the latest call of a query function of the loader, with its arguments
    answer,           \* what that call returned
    answerList,       \* the array that answer is: "new" (made by the call), "index" (a list of the index), "none" (no array)
    initialized,      \* FeatureLoader.initialized
    spatialIndexByMap,\* FeatureLoader.spatialIndexByMap: mapId -> list of index entries
    inits,            \* the init() calls of the loader, each with its position
    orphans,          \* mapId -> the layer state unloadLayer took out of layerStates while a suspended call still holds it
    timeSlider        \* the TimeSliderController: its fields, and its applyDateChange calls in progress

loaderVars == <<loadedFeatures, pendingLoads, fetches, tasks, lastFailed>>
labelVars == <<allLabels, labelsEnabled, textScale, labelMarkers, labelError, labelsBefore>>
queryVars == <<query, answer, answerList>>
indexVars == <<initialized, spatialIndexByMap, inits>>
ctrlVars == <<view, zoom, layerStates, lodLayers, currentLOD, passes, loads, events, labelVars, queryVars, indexVars, orphans, timeSlider>>
vars == <<loadedFeatures, pendingLoads, fetches, tasks, lastFailed,
          view, zoom, layerStates, lodLayers, currentLOD, passes, loads, events, rebuilt, cleared,
          allLabels, labelsEnabled, textScale, labelMarkers, labelError, labelsBefore, query, answer, answerList, initialized, spatialIndexByMap, inits, orphans, timeSlider>>

\* ---------------------------------------------------------------- slicing
Min(a, b) == IF a < b THEN a ELSE b
Max(a, b) == IF a > b THEN a ELSE b

\* indices.slice(i, i + width) for 0-based i (part_001:169)
Slice(indices, i, width) ==
    SubSeq(indices, i + 1, Min(i + width, Len(indices)))

\* The batches of one loadFeatures call: for (i = 0; i < length; i += width)
RECURSIVE BatchesFrom(_, _, _)
BatchesFrom(indices, i, width) ==
    IF i < Len(indices)
    THEN <<Slice(indices, i, width)>> \o BatchesFrom(indices, i + width, width)
    ELSE <<>>

Batches(indices, width) == BatchesFrom(indices, 0, width)

SeqToSet(s) == {s[k] : k \in 1..Len(s)}

\* ------------------------------------------------------------ loadFeature
\* The loader's tables as one value, threaded through the calls of a batch.
Loader == [cache |-> loadedFeatures, pending |-> pendingLoads, net |-> fetches]

\* The generation a new promise of key K gets: the first one no fetch in flight uses.
FreeGen(L, K) ==
    IF \E g \in 1..MaxGen : <<K, g>> \notin L.net
    THEN CHOOSE g \in 1..MaxGen :
            /\ <<K, g>> \notin L.net
            /\ \A h \in 1..(g - 1) : <<K, h>> \in L.net
    ELSE 0

\* loadFeature without the pendingLoads check of part_001:136-138.
LoadFeatureNoJoin(L, m, index, lod) ==
    LET K == <<m, index, lod>> IN
    IF K \in L.cache
    THEN [L |-> L, how |-> "hit", p |-> <<K, 0>>]
    ELSE LET g == FreeGen(L, K) IN
         [L |-> [L EXCEPT !.pending[K] = g, !.net = @ \cup {<<K, g>>}],
          how |-> "fetch", p |-> <<K, g>>]

\* loadFeature(mapId, index, lod), part_001:126-159, up to its return:
\* how |-> "hit" (cached payload returned), "join" (pending promise returned)
\* or "fetch" (fetch issued, promise stored); p is the promise returned.
LoadFeature(L, m, index, lod) ==
    LET K == KeyOf(m, index, lod) IN
    IF K \in L.cache
    THEN [L |-> L, how |-> "hit", p |-> <<K, 0>>]
    ELSE IF L.pending[K] # 0
    THEN [L |-> L, how |-> "join", p |-> <<K, L.pending[K]>>]
    ELSE LET g == FreeGen(L, K) IN
         [L |-> [L EXCEPT !.pending[K] = g, !.net = @ \cup {<<K, g>>}],
          how |-> "fetch", p |-> <<K, g>>]

\* batch.map(index => this.loadFeature(mapId, index, lod)), part_001:171:
\* the calls run in order within one synchronous step.
RECURSIVE BatchMap(_, _, _, _)
BatchMap(L, m, batch, lod) ==
    IF batch = <<>>
    THEN [L |-> L, calls |-> <<>>]
    ELSE LET r == LoadFeature(L, m, Head(batch), lod)
             rest == BatchMap(r.L, m, Tail(batch), lod)
         IN [L |-> rest.L,
             calls |-> <<[index |-> Head(batch), how |-> r.how, p |-> r.p]>> \o rest.calls]

\* A step needs a free generation for every fetch it issues.
CanIssue(L, m, batch, lod) ==
    \A k \in 1..Len(batch) :
        LET K == KeyOf(m, batch[k], lod) IN
        (K \notin L.cache /\ L.pending[K] = 0) => FreeGen(L, K) # 0

\* ------------------------------------------------------------------ tasks
IdleTask ==
    [st |-> "idle", mapId |-> "a", indices |-> <<>>, lod |-> 0, i |-> 0,
     wait |-> {}, results |-> <<>>,
     ok |-> {}, nul |-> {}, issued |-> {}, tainted |-> FALSE]

\* The call after `calls` were made for the batch at offset i: it awaits
\* Promise.all of the returned promises (part_001:170).
Awaiting(t, i, calls) ==
    [t EXCEPT
        !.st = "await",
        !.i = i,
        !.wait = {calls[k].p : k \in {j \in 1..Len(calls) : calls[j].how # "hit"}},
        !.ok = @ \cup {calls[k].index : k \in {j \in 1..Len(calls) : calls[j].how = "hit"}},
        !.issued = @ \cup {calls[k].index : k \in {j \in 1..Len(calls) : calls[j].how = "fetch"}}]

\* Promise.race in place of Promise.all: the first settled promise resumes the call.
BatchRaced(t) ==
    \E x \in SeqToSet(Slice(t.indices, t.i, BatchWidth)) : x \in t.ok \cup t.nul

\* Promise.all(batch promises) has resolved: every promise of the batch settled.
BatchJoined(t) == t.wait = {}

\* results.push(...batchResults.filter(r => r !== null)), part_001:173
PushResults(t) ==
    t.results \o SelectSeq(Slice(t.indices, t.i, BatchWidth), LAMBDA x : x \in t.ok)

\* The loop with the bound i + width < length: the last batch is never issued.
RunFromShort(L, t, i) ==
    IF i + BatchWidth < Len(t.indices)
    THEN LET bm == BatchMap(L, t.mapId, Slice(t.indices, i, BatchWidth), t.lod)
         IN [L |-> bm.L, t |-> Awaiting(t, i, bm.calls)]
    ELSE [L |-> L, t |-> [t EXCEPT !.st = "done", !.i = i, !.wait = {}]]

\* The for loop of loadFeatures (part_001:168-176) entered at offset i: either
\* the batch at i is issued and the call suspends on it, or the loop is over
\* and the call returns results.
RunFrom(L, t, i) ==
    IF i < Len(t.indices)
    THEN LET bm == BatchMap(L, t.mapId, Slice(t.indices, i, BatchWidth), t.lod)
         IN [L |-> bm.L, t |-> Awaiting(t, i, bm.calls)]
    ELSE [L |-> L, t |-> [t EXCEPT !.st = "done", !.i = i, !.wait = {}]]

\* loadFeatures(mapId, indices, lod) from its call to its first suspension.
BeginLoad(L, m, indices, lod) ==
    RunFrom(L, [IdleTask EXCEPT !.mapId = m, !.indices = indices, !.lod = lod], 0)

\* The call resumes after its batch: push the batch's results, i += width.
Advance(L, t) ==
    RunFrom(L, [t EXCEPT !.results = PushResults(t)], t.i + BatchWidth)

\* The keys loadFeature is called for when the loop is entered at offset i.
CalledAt(t, i) ==
    {KeyOf(t.mapId, x, t.lod) : x \in SeqToSet(Slice(t.indices, i, BatchWidth))}

CanRunFrom(L, t, i) ==
    CanIssue(L, t.mapId, Slice(t.indices, i, BatchWidth), t.lod)

\* ------------------------------------------------------------- settlement
\* A cache that keeps one level per feature: a new payload replaces the others.
CacheOnSuccessEvicting(cache, K) ==
    {J \in cache : ~(J[1] = K[1] /\ J[2] = K[2])} \cup {K}

\* A settle that throws the payload away instead of caching it.
CacheOnSuccessDiscarding(cache, K) == cache

\* .then(geojson => { this.loadedFeatures.set(cacheKey, geojson); ... }), part_001:146-150
CacheOnSuccess(cache, K) == cache \cup {K}

\* .catch(err => { this.pendingLoads.delete(url); ...; return null; }), part_001:151-155:
\* the cache is left alone, the pending entry goes, the promise resolves with null.
CacheOnFailure(cache, K) == cache
\* A success that leaves the entry of the settled promise in the table.
PendingKeptOnSuccess(pending, K) == pending

PendingOnSettle(pending, K) == [pending EXCEPT ![K] = 0]
\* A catch handler that forgets pendingLoads.delete(url).
PendingKeptOnFailure(pending, K) == pending
PendingOnFailure(pending, K) == PendingOnSettle(pending, K)
\* A catch handler that rethrows instead of returning null.
CatchRethrows == "rejected"
CatchOutcome == "null"

\* What the settled promise f hands to every call awaiting it; a rejected
\* promise rejects Promise.all, and loadFeatures throws out of its loop.
Deliver(ts, f, outcome) ==
    [c \in DOMAIN ts |->
        IF ts[c].st = "await" /\ f \in ts[c].wait
        THEN CASE outcome = "ok" ->
                    [ts[c] EXCEPT !.wait = @ \ {f}, !.ok = @ \cup {f[1][2]}]
               [] outcome = "null" ->
                    [ts[c] EXCEPT !.wait = @ \ {f}, !.nul = @ \cup {f[1][2]}]
               [] OTHER ->
                    [ts[c] EXCEPT !.st = "rejected", !.wait = {}]
        ELSE ts[c]]

\* A clearMap that also drops the dataset's pendingLoads entries.
ClearMapAndPending(L, m) ==
    [L EXCEPT !.cache = {K \in @ : K[1] # m},
              !.pending = [K \in DOMAIN @ |-> IF K[1] = m THEN 0 ELSE @[K]]]

\* A clearMap that empties the cache of every dataset.
ClearMapAll(L, m) == [L EXCEPT !.cache = {}]

\* clearMap(mapId), part_001:229-235: deletes the loadedFeatures entries whose
\* key starts with mapId + ':' and touches nothing else.
ClearMap(L, m) == [L EXCEPT !.cache = {K \in @ : K[1] # m}]

\* History only: a clearMap of m happened during these calls.
Taint(ts, m) ==
    [c \in DOMAIN ts |->
        IF ts[c].st # "idle" /\ ts[c].mapId = m
        THEN [ts[c] EXCEPT !.tainted = TRUE] ELSE ts[c]]

\* ---------------------------------------------------------- spatial index
FEATURE_THRESHOLD == 50
\* VIEWPORT_BUFFER = 0.2 (part_001:8) as the fraction 1 / VIEWPORT_BUFFER_DEN;
\* buffered coordinates are kept multiplied by it, so they stay integers.
VIEWPORT_BUFFER_DEN == 5

\* The manifest: per dataset a list of {id: "mapId:index", mapId, bbox}, the
\* index being the position in the dataset.  A few features lie near the
\* viewports used here, the rest of each dataset far away.
IndexSize(m) == IF m = "a" THEN 52 ELSE 51
FarBox == <<1000, 1000, 1001, 1001>>
FeatureBBox(m, x) ==
    CASE m = "a" /\ x = 0 -> <<0, 0, 10, 10>>
      [] m = "a" /\ x = 1 -> <<20, 0, 30, 10>>
      [] m = "b" /\ x = 0 -> <<22, 0, 28, 10>>
      [] m = "a" /\ x = 100 -> <<-65, 541, -64, 542>>
      [] m = "a" /\ x = 101 -> <<-80, 541, -75, 542>>
      [] m = "a" /\ x = 102 -> <<111, 103, 112, 104>>
      [] m = "a" /\ x = 103 -> <<112, 103, 113, 104>>
      [] m = "a" /\ x = 104 -> <<113, 103, 114, 104>>
      [] m = "a" /\ x = 105 -> <<97, 97, 98, 98>>
      [] m = "a" /\ x = 106 -> <<103, 112, 104, 115>>
      [] m = "a" /\ x = 107 -> <<103, 113, 104, 115>>
      [] m = "a" /\ x = 108 -> <<-73, 538, -72, 539>>
      [] m = "a" /\ x = 109 -> <<-74, 538, -73, 539>>
      [] OTHER -> FarBox

\* data.features of a manifest with sizes[m] features of dataset m.  A
\* record {id, mapId, bbox} is named by <<mapId, position in its dataset>>: the
\* manifest lists and the index lists hold references to the records.
ManifestFeatures(sizes) ==
    LET of(m) == [k \in 1..sizes[m] |-> <<m, k - 1>>]
    IN of("a") \o of("b")

\* The record a reference stands for: id is "mapId:index".
Record(ref) == [id |-> ref, mapId |-> ref[1], bbox |-> FeatureBBox(ref[1], ref[2])]

\* The grouping loop of init(), part_001:40-45: each record is pushed to the
\* list of its dataset, the list being created at the first one.  The lists
\* that are there already are kept, and the records come behind theirs.
GroupByMap(index, features) ==
    LET ids == {Record(features[k]).mapId : k \in 1..Len(features)}
        had(d) == IF d \in DOMAIN index THEN index[d] ELSE <<>>
    IN [d \in DOMAIN index \cup ids |->
            had(d) \o SelectSeq(features, LAMBDA feature : Record(feature).mapId = d)]

NoIndex == [m \in {} |-> <<>>]

\* spatialIndexByMap after init() has grouped the manifest (part_001:40-45)
SpatialIndexByMap ==
    GroupByMap(NoIndex, ManifestFeatures([m \in MapIds |-> IndexSize(m)]))

\* supportsLOD without the check of part_001:58.
SupportsLODUnguarded(m) ==
    /\ m \in DOMAIN spatialIndexByMap
    /\ Len(spatialIndexByMap[m]) >= FEATURE_THRESHOLD

\* supportsLOD(mapId), part_001:57-61
SupportsLOD(m) ==
    /\ initialized
    /\ m \in DOMAIN spatialIndexByMap
    /\ Len(spatialIndexByMap[m]) >= FEATURE_THRESHOLD

\* getFeatureCount that counts a list that is not there as one record.
GetFeatureCountOrOne(m) ==
    IF m \in DOMAIN spatialIndexByMap THEN Len(spatialIndexByMap[m]) ELSE 1

\* getFeatureCount(mapId), part_001:66-68
GetFeatureCount(m) ==
    IF m \in DOMAIN spatialIndexByMap THEN Len(spatialIndexByMap[m]) ELSE 0

\* Levels that change one zoom step later.
GetLODForZoomAbove(z) ==
    IF z > 12 THEN 2 ELSE IF z > 8 THEN 1 ELSE 0

\* getLODForZoom(zoom), part_001:76-80
GetLODForZoom(z) ==
    IF z >= 12 THEN 2 ELSE IF z >= 8 THEN 1 ELSE 0

\* The bounds as they are, in the units of getBufferedBounds.
GetUnbufferedBounds(bounds) ==
    <<VIEWPORT_BUFFER_DEN * bounds[1], VIEWPORT_BUFFER_DEN * bounds[2],
      VIEWPORT_BUFFER_DEN * bounds[3], VIEWPORT_BUFFER_DEN * bounds[4]>>

\* getBufferedBounds(bounds), part_001:85-93; the result is in units of
\* 1 / VIEWPORT_BUFFER_DEN: <<west, south, east, north>>
GetBufferedBounds(bounds) ==
    LET latDiff == bounds[4] - bounds[2]
        lngDiff == bounds[3] - bounds[1]
    IN <<VIEWPORT_BUFFER_DEN * bounds[1] - lngDiff,
         VIEWPORT_BUFFER_DEN * bounds[2] - latDiff,
         VIEWPORT_BUFFER_DEN * bounds[3] + lngDiff,
         VIEWPORT_BUFFER_DEN * bounds[4] + latDiff>>

\* getFeaturesInBounds(mapId, bounds), part_001:98-113
GetFeaturesInBounds(m, bounds) ==
    IF m \notin DOMAIN spatialIndexByMap
    THEN <<>>
    ELSE LET bb == GetBufferedBounds(bounds)
             minLng == bb[1]
             minLat == bb[2]
             maxLng == bb[3]
             maxLat == bb[4]
             features == [k \in 1..Len(spatialIndexByMap[m]) |-> Record(spatialIndexByMap[m][k])]
         IN SelectSeq(features,
                LAMBDA f :
                    ~(\/ VIEWPORT_BUFFER_DEN * f.bbox[3] < minLng
                      \/ VIEWPORT_BUFFER_DEN * f.bbox[1] > maxLng
                      \/ VIEWPORT_BUFFER_DEN * f.bbox[4] < minLat
                      \/ VIEWPORT_BUFFER_DEN * f.bbox[2] > maxLat))

\* A query that hands out the list of the index when there is one.
IndexListItself(m) == IF m \in DOMAIN spatialIndexByMap THEN "index" ELSE "new"

\* The array getFeaturesInBounds returns: [] or what features.filter makes
\* (part_001:100, 108), a new array in both cases; its elements are the
\* records of the index, not copies.
FilteredList(m) == "new"

\* parseFeatureId(id), part_001:118-121: the index part of "mapId:index"
ParseFeatureId(id) == id[2]

\* A check of the target level alone, without the scan up to level 2.
HasExactLOD(cache, m, index, targetLOD) == KeyOf(m, index, targetLOD) \in cache

\* The inner loop of getFeaturesToLoad, part_001:190-196
HasGoodEnoughLOD(cache, m, index, targetLOD) ==
    \E lod \in targetLOD..2 : KeyOf(m, index, lod) \in cache

\* getFeaturesToLoad(mapId, featureIds, targetLOD), part_001:183-204
GetFeaturesToLoad(cache, m, featureIds, targetLOD) ==
    SelectSeq([k \in 1..Len(featureIds) |-> ParseFeatureId(featureIds[k])],
              LAMBDA index : ~HasGoodEnoughLOD(cache, m, index, targetLOD))

FeatureIds(features) == [k \in 1..Len(features) |-> features[k].id]

\* ------------------------------------------------------------- controller
\* Viewports and zooms the user moves between.
Views == {<<0, 0, 10, 10>>, <<10, 0, 30, 10>>}
DefaultView == <<0, 0, 10, 10>>
Zooms == {8, 13}
DefaultZoom == 8
MaxEvents == 2

\* Features whose label property is set (the others get no label entry).
LabelledFeature(K) == ~(K[1] = "a" /\ K[2] = 1)

NoLayer == [st |-> "none", visible |-> FALSE, geoJsonLayers |-> EmptyBag, labelEntries |-> EmptyBag]
\* The state loadLayer creates, part_002:385-397
NewLayer == [st |-> "loading", visible |-> FALSE, geoJsonLayers |-> EmptyBag, labelEntries |-> EmptyBag]

\* A suspended pass holds the state object of the dataset it is at; orphan
\* says that unloadLayer has taken that object out of layerStates since.
IdlePass ==
    [st |-> "idle", bounds |-> DefaultView, newLOD |-> 0, map |-> "a", pos |-> 0, mode |-> "none",
     orphan |-> FALSE]
IdleLoad == [st |-> "idle", lod |-> 0, indices |-> <<>>, i |-> 0]
LoadTask(m) == IF m = "a" THEN "la" ELSE "lb"
\* The loadLayerWithLOD call of m whose state object unloadLayer has taken out
\* of layerStates: it runs on beside a new load of m.
StaleLoad(m) == IF m = "a" THEN "sa" ELSE "sb"
LoadIds == MapIds \cup {StaleLoad(m) : m \in MapIds}

\* addFeatureToLayer(state, geojson, ...), part_002:553-594: one more geometry
\* in the layer, and one more label entry when the feature has a label.
AddFeatureToLayer(state, K) ==
    [state EXCEPT
        !.geoJsonLayers = @ (+) SetToBag({K}),
        !.labelEntries = IF LabelledFeature(K) THEN @ (+) SetToBag({K}) ELSE @]

\* for (const geojson of features) this.addFeatureToLayer(state, geojson, ...)
RECURSIVE AddFeatures(_, _, _, _)
AddFeatures(state, m, lod, results) ==
    IF results = <<>>
    THEN state
    ELSE AddFeatures(AddFeatureToLayer(state, KeyOf(m, Head(results), lod)), m, lod, Tail(results))

\* What one synchronous run has done so far: the loader's tables L, the layer
\* states and currentLOD, and for the history variables the datasets it
\* cleared, the keys it asked loadFeature for and the rebuilds it made.
RunState(L, layers, cur) ==
    [L |-> L, layers |-> layers, cur |-> cur,
     cleared |-> {}, called |-> {}, rebuilt |-> {}, can |-> TRUE]

Suspended(S, t0, r, m, k, mode) ==
    [S |-> [S EXCEPT !.L = r.L,
                     !.called = @ \cup CalledAt(t0, 0),
                     !.can = @ /\ CanRunFrom(S.L, t0, 0)],
     st |-> "await", map |-> m, pos |-> k, mode |-> mode, t |-> r.t]

\* The loop of updateLODLayers over lodLayers (part_002:606-650) from its k-th
\* dataset on, up to the first await or to the end of the loop.
RECURSIVE PassLoop(_, _, _, _)
PassLoop(S, bounds, newLOD, k) ==
    IF k > Len(lodLayers)
    THEN [S |-> S, st |-> "idle", map |-> "a", pos |-> 0, mode |-> "none", t |-> IdleTask]
    ELSE
    LET mapId == lodLayers[k]
        state == S.layers[mapId]
    IN
    IF state.st = "none" \/ ~state.visible
    THEN PassLoop(S, bounds, newLOD, k + 1)
    ELSE
    LET lodChanged == S.cur[mapId] # newLOD
        visibleFeatures == GetFeaturesInBounds(mapId, bounds)
        indices == GetFeaturesToLoad(S.L.cache, mapId, FeatureIds(visibleFeatures), newLOD)
    IN
    IF lodChanged
    THEN LET allIndices == [j \in 1..Len(visibleFeatures) |-> ParseFeatureId(visibleFeatures[j].id)]
             S1 == [S EXCEPT
                      !.layers[mapId].geoJsonLayers = EmptyBag,
                      !.layers[mapId].labelEntries = EmptyBag,
                      !.L = ClearMap(S.L, mapId),
                      !.cleared = @ \cup {mapId},
                      !.rebuilt = @ \cup {[map |-> mapId, lod |-> newLOD, req |-> SeqToSet(allIndices)]}]
             t0 == [IdleTask EXCEPT !.mapId = mapId, !.indices = allIndices, !.lod = newLOD]
         IN IF Len(allIndices) > 0
            THEN Suspended(S1, t0, BeginLoad(S1.L, mapId, allIndices, newLOD), mapId, k, "rebuild")
            ELSE PassLoop([S1 EXCEPT !.cur[mapId] = newLOD], bounds, newLOD, k + 1)
    ELSE IF Len(indices) > 0
    THEN LET t0 == [IdleTask EXCEPT !.mapId = mapId, !.indices = indices, !.lod = newLOD]
         IN Suspended(S, t0, BeginLoad(S.L, mapId, indices, newLOD), mapId, k, "topup")
    ELSE PassLoop(S, bounds, newLOD, k + 1)

\* The batch loop of loadLayerWithLOD (part_002:517-547) from offset i on, up
\* to its next await or to the end: loaded, and shown (show is true).
LoadLoop(S, m, lod, indices, i) ==
    IF i < Len(indices)
    THEN LET batch == Slice(indices, i, BatchWidth)
             t0 == [IdleTask EXCEPT !.mapId = m, !.indices = batch, !.lod = lod]
         IN [Suspended(S, t0, BeginLoad(S.L, m, batch, lod), m, 0, "load") EXCEPT !.pos = i]
    ELSE [S |-> [S EXCEPT !.layers[m].st = "loaded", !.layers[m].visible = TRUE],
          st |-> "idle", map |-> m, pos |-> i, mode |-> "load", t |-> IdleTask]

\* History only: a clearMap of each of these datasets happened.
RECURSIVE TaintAll(_, _)
TaintAll(ts, ms) ==
    IF ms = {} THEN ts
    ELSE LET m == CHOOSE x \in ms : TRUE IN TaintAll(Taint(ts, m), ms \ {m})

\* ------------------------------------------------- the loader on its own
\* FeatureLoader is an exported singleton: any caller may call loadFeatures
\* (loadFeature is the call with one index) and clearMap in any order.
NoQuery == [op |-> "none"]

\* The time slider after its constructor, part_000:9-29.  preSliderState is
\* null or the ids saved; loaded is what getLoadedMapIds (part_000:403-411)
\* returns, the ids of the loaded layers; swaps are the applyDateChange and
\* restorePreSliderState calls that are suspended in a loadLayer, each with
\* the id it awaits and the pairs <<oldId, newId>> it has still to do.
NewTimeSlider ==
    [dates |-> <<>>, currentIndex |-> 0, preSliderState |-> [null |-> TRUE, ids |-> {}],
     applyingDateChange |-> FALSE, loaded |-> {}, swaps |-> <<>>]
MaxInits == 2
InitIds == 1..MaxInits

Clients == {"c1", "c2"}
Passes == {"p1", "p2"}
TaskIds == Clients \cup Passes \cup {"la", "lb"} \cup {StaleLoad(m) : m \in MapIds}

LoaderCalls ==
    {<<"a", <<0, 1, 2>>, 1>>, <<"a", <<2>>, 1>>, <<"a", <<>>, 1>>}

\* The state after construction and after init() has loaded the manifest:
\* nothing cached, nothing in flight, no layer, the map at its default view.
Init ==
    /\ loadedFeatures = {}
    /\ pendingLoads = [K \in Keys |-> 0]
    /\ fetches = {}
    /\ tasks = [c \in TaskIds |-> IdleTask]
    /\ lastFailed = {}
    /\ view = DefaultView
    /\ zoom = DefaultZoom
    /\ layerStates = [m \in MapIds |-> NoLayer]
    /\ lodLayers = <<>>
    /\ currentLOD = [m \in MapIds |-> -1]
    /\ passes = [p \in Passes |-> IdlePass]
    /\ loads = [l \in LoadIds |-> IdleLoad]
    /\ events = 0
    /\ rebuilt = {}
    /\ cleared = {}
    /\ allLabels = <<>>
    /\ labelsEnabled = TRUE
    /\ textScale = 100
    /\ labelMarkers = <<>>
    /\ labelError = FALSE
    /\ labelsBefore = <<>>
    /\ query = NoQuery
    /\ answer = <<>>
    /\ answerList = "none"
    /\ initialized = TRUE
    /\ spatialIndexByMap = SpatialIndexByMap
    /\ inits = [k \in InitIds |-> "returned"]
    /\ orphans = [m \in MapIds |-> NoLayer]
    /\ timeSlider = NewTimeSlider

\* A caller calls loadFeatures(m, indices, lod); it runs to its first await.
ClientCall(c, m, indices, lod) ==
    /\ tasks[c].st = "idle"
    /\ LET t0 == [IdleTask EXCEPT !.mapId = m, !.indices = indices, !.lod = lod]
           r == BeginLoad(Loader, m, indices, lod)
       IN /\ CanRunFrom(Loader, t0, 0)
          /\ loadedFeatures' = r.L.cache
          /\ pendingLoads' = r.L.pending
          /\ fetches' = r.L.net
          /\ tasks' = [tasks EXCEPT ![c] = r.t]
          /\ lastFailed' = lastFailed \ CalledAt(t0, 0)
    /\ UNCHANGED ctrlVars
    /\ rebuilt' = {}
    /\ cleared' = {}

\* Promise.all of the current batch resolved: the call goes on with the next
\* batch, or returns.
ClientResume(c) ==
    /\ tasks[c].st = "await"
    /\ BatchJoined(tasks[c])
    /\ LET r == Advance(Loader, tasks[c])
       IN /\ CanRunFrom(Loader, tasks[c], tasks[c].i + BatchWidth)
          /\ loadedFeatures' = r.L.cache
          /\ pendingLoads' = r.L.pending
          /\ fetches' = r.L.net
          /\ tasks' = [tasks EXCEPT ![c] = r.t]
          /\ lastFailed' = lastFailed \ CalledAt(tasks[c], tasks[c].i + BatchWidth)
    /\ UNCHANGED ctrlVars
    /\ rebuilt' = {}
    /\ cleared' = {}

\* The caller has taken the returned list (or the exception).
ClientReturn(c) ==
    /\ tasks[c].st \in {"done", "rejected"}
    /\ tasks' = [tasks EXCEPT ![c] = IdleTask]
    /\ UNCHANGED <<loadedFeatures, pendingLoads, fetches, lastFailed>>
    /\ UNCHANGED ctrlVars
    /\ rebuilt' = {}
    /\ cleared' = {}

ClientClearMap(m) ==
    /\ LET L == ClearMap(Loader, m)
       IN /\ loadedFeatures' = L.cache
          /\ pendingLoads' = L.pending
          /\ fetches' = L.net
    /\ tasks' = Taint(tasks, m)
    /\ UNCHANGED lastFailed
    /\ UNCHANGED ctrlVars
    /\ rebuilt' = {}
    /\ cleared' = {m}

\* The network: the response of fetch f arrives with status ok and decodes.
FetchSucceeds(f) ==
    /\ f \in fetches
    /\ fetches' = fetches \ {f}
    /\ loadedFeatures' = CacheOnSuccess(loadedFeatures, f[1])
    /\ pendingLoads' = PendingOnSettle(pendingLoads, f[1])
    /\ tasks' = Deliver(tasks, f, "ok")
    /\ lastFailed' = lastFailed \ {f[1]}
    /\ UNCHANGED ctrlVars
    /\ rebuilt' = {}
    /\ cleared' = {}

\* The network: fetch f fails (network error, status not ok, or bad JSON).
FetchFails(f) ==
    /\ f \in fetches
    /\ fetches' = fetches \ {f}
    /\ loadedFeatures' = CacheOnFailure(loadedFeatures, f[1])
    /\ pendingLoads' = PendingOnFailure(pendingLoads, f[1])
    /\ tasks' = Deliver(tasks, f, CatchOutcome)
    /\ lastFailed' = lastFailed \cup {f[1]}
    /\ UNCHANGED ctrlVars
    /\ rebuilt' = {}
    /\ cleared' = {}

LoaderNext ==
    \/ \E c \in Clients, s \in LoaderCalls : ClientCall(c, s[1], s[2], s[3])
    \/ \E c \in Clients : ClientResume(c)
    \/ \E c \in Clients : ClientReturn(c)
    \/ \E m \in MapIds : ClientClearMap(m)
    \/ \E f \in FetchIds : FetchSucceeds(f)
    \/ \E f \in FetchIds : FetchFails(f)

SpecLoader == Init /\ [][LoaderNext]_vars

\* ------------------------------------------------- the controller's steps
\* A run r of a pass or of a layer load has reached its await or its end:
\* its effects become the state; call c holds the loadFeatures call it awaits.
Commit(r, c) ==
    /\ r.S.can
    /\ loadedFeatures' = r.S.L.cache
    /\ pendingLoads' = r.S.L.pending
    /\ fetches' = r.S.L.net
    /\ tasks' = [TaintAll(tasks, r.S.cleared) EXCEPT ![c] = r.t]
    /\ lastFailed' = lastFailed \ r.S.called
    /\ layerStates' = r.S.layers
    /\ currentLOD' = r.S.cur
    /\ rebuilt' = r.S.rebuilt
    /\ cleared' = r.S.cleared

PassOf(r, bounds, newLOD) ==
    IF r.st = "idle" THEN IdlePass
    ELSE [st |-> "await", bounds |-> bounds, newLOD |-> newLOD,
          map |-> r.map, pos |-> r.pos, mode |-> r.mode, orphan |-> FALSE]

FreePass == CHOOSE p \in Passes : passes[p].st = "idle" /\ (p = "p1" \/ passes["p1"].st # "idle")

\* moveend or zoomend: the map is at viewport v and zoom z, and the handler
\* calls updateLODLayers (part_002:263-264, 599-651), which runs to its first
\* await.
OnMoveZoomEnd(v, z) ==
    /\ events < MaxEvents
    /\ \E p \in Passes : passes[p].st = "idle"
    /\ view' = v
    /\ zoom' = z
    /\ events' = events + 1
    /\ UNCHANGED <<lodLayers, loads, labelVars, queryVars, indexVars, orphans, timeSlider>>
    /\ IF Len(lodLayers) = 0
       THEN /\ UNCHANGED <<loadedFeatures, pendingLoads, fetches, tasks, lastFailed,
                           layerStates, currentLOD, passes>>
            /\ rebuilt' = {}
            /\ cleared' = {}
       ELSE LET newLOD == GetLODForZoom(z)
                r == PassLoop(RunState(Loader, layerStates, currentLOD), v, newLOD, 1)
            IN /\ Commit(r, FreePass)
               /\ passes' = [passes EXCEPT ![FreePass] = PassOf(r, v, newLOD)]

\* The loadFeatures call of pass p resumes; when it returns, the pass adds the
\* features to the state object it holds (the one in layerStates, or the one
\* unloadLayer has taken out), records the level after a rebuild, and goes on
\* with the next dataset.
PassResume(p) ==
    /\ passes[p].st = "await"
    /\ tasks[p].st = "await"
    /\ BatchJoined(tasks[p])
    /\ UNCHANGED <<view, zoom, lodLayers, loads, events, labelVars, queryVars, indexVars, timeSlider>>
    /\ LET a == Advance(Loader, tasks[p])
           ps == passes[p]
       IN IF a.t.st = "await"
          THEN /\ CanRunFrom(Loader, tasks[p], tasks[p].i + BatchWidth)
               /\ UNCHANGED orphans
               /\ loadedFeatures' = a.L.cache
               /\ pendingLoads' = a.L.pending
               /\ fetches' = a.L.net
               /\ tasks' = [tasks EXCEPT ![p] = a.t]
               /\ lastFailed' = lastFailed \ CalledAt(tasks[p], tasks[p].i + BatchWidth)
               /\ UNCHANGED <<layerStates, currentLOD, passes>>
               /\ rebuilt' = {}
               /\ cleared' = {}
          ELSE LET layers1 == IF ps.orphan
                                  THEN layerStates
                                  ELSE [layerStates EXCEPT
                                          ![ps.map] = AddFeatures(@, ps.map, ps.newLOD, a.t.results)]
                   cur1 == IF ps.mode = "rebuild"
                           THEN [currentLOD EXCEPT ![ps.map] = ps.newLOD]
                           ELSE currentLOD
                   r == PassLoop(RunState(a.L, layers1, cur1), ps.bounds, ps.newLOD, ps.pos + 1)
               IN /\ Commit(r, p)
                  /\ passes' = [passes EXCEPT ![p] = PassOf(r, ps.bounds, ps.newLOD)]
                  /\ orphans' = IF ps.orphan
                                THEN [orphans EXCEPT
                                        ![ps.map] = AddFeatures(@, ps.map, ps.newLOD, a.t.results)]
                                ELSE orphans

LoadOf(r, lod, indices) ==
    IF r.st = "idle" THEN IdleLoad
    ELSE [st |-> "await", lod |-> lod, indices |-> indices, i |-> r.pos]

\* loadLayer(mapConfig, true) for a dataset with no layer state that supports
\* LOD (part_002:355-407), and loadLayerWithLOD up to its first await
\* (part_002:491-520).
LoadLayer(m) ==
    /\ layerStates[m].st = "none"
    /\ SupportsLOD(m)
    /\ UNCHANGED <<view, zoom, passes, events, labelVars, queryVars, indexVars, orphans, timeSlider>>
    /\ lodLayers' = IF m \in SeqToSet(lodLayers) THEN lodLayers ELSE Append(lodLayers, m)
    /\ LET lod == GetLODForZoom(zoom)
           visibleFeatures == GetFeaturesInBounds(m, view)
           indices == GetFeaturesToLoad(loadedFeatures, m, FeatureIds(visibleFeatures), lod)
           S0 == RunState(Loader, [layerStates EXCEPT ![m] = NewLayer],
                          [currentLOD EXCEPT ![m] = lod])
           r == LoadLoop(S0, m, lod, indices, 0)
       IN /\ Commit(r, LoadTask(m))
          /\ loads' = [loads EXCEPT ![m] = LoadOf(r, lod, indices)]

\* The loadFeatures call of the layer load of m returns: its features are
\* added, and the load goes on with its next batch or finishes.
LoadResume(m) ==
    /\ loads[m].st = "await"
    /\ tasks[LoadTask(m)].st = "await"
    /\ BatchJoined(tasks[LoadTask(m)])
    /\ UNCHANGED <<view, zoom, lodLayers, passes, events, labelVars, queryVars, indexVars, orphans, timeSlider>>
    /\ LET a == Advance(Loader, tasks[LoadTask(m)])
           ld == loads[m]
           layers1 == [layerStates EXCEPT ![m] = AddFeatures(@, m, ld.lod, a.t.results)]
           r == LoadLoop(RunState(a.L, layers1, currentLOD), m, ld.lod, ld.indices, ld.i + BatchWidth)
       IN /\ a.t.st = "done"
          /\ Commit(r, LoadTask(m))
          /\ loads' = [loads EXCEPT ![m] = LoadOf(r, ld.lod, ld.indices)]

NetSucceeds == \E f \in FetchIds : FetchSucceeds(f)
NetFails == \E f \in FetchIds : FetchFails(f)

Next ==
    \/ \E v \in Views, z \in Zooms : OnMoveZoomEnd(v, z)
    \/ \E p \in Passes : PassResume(p)
    \/ \E m \in MapIds : LoadLayer(m)
    \/ \E m \in MapIds : LoadResume(m)
    \/ NetSucceeds
    \/ NetFails

Spec == Init /\ [][Next]_vars

\* --------------------------------------- unloading and loading again
\* A call that is suspended holds the state object it started with.  When
\* unloadLayer takes that object out of layerStates the call goes on with it:
\* orphans[m] is that object, loads[StaleLoad(m)] the loadLayerWithLOD call
\* that holds it, and a pass that holds it has orphan set.  (unloadLayer of m
\* is left out while a call still holds an earlier orphan of m.)
\* hideLayer(id), part_002:726-735
HideLayer(m) ==
    /\ events < MaxEvents
    /\ layerStates[m].st # "none"
    /\ layerStates[m].visible
    /\ events' = events + 1
    /\ layerStates' = [layerStates EXCEPT ![m].visible = FALSE]
    /\ rebuilt' = {}
    /\ cleared' = {}
    /\ UNCHANGED <<loaderVars, view, zoom, lodLayers, currentLOD, passes, loads,
                   labelVars, queryVars, indexVars, orphans, timeSlider>>

\* unloadLayer(id), part_002:762-777: hideLayer, the state leaves layerStates,
\* and for an LOD dataset lodLayers and currentLOD lose their entry and
\* clearMap runs.  The iteration of a suspended pass over lodLayers (a Set)
\* goes on behind the entries it has visited.
UnloadLayer(m) ==
    LET holdsOrphan ==
            \/ loads[StaleLoad(m)].st # "idle"
            \/ \E p \in Passes : passes[p].st # "idle" /\ passes[p].map = m /\ passes[p].orphan
        useLOD == m \in SeqToSet(lodLayers)
        place == IF useLOD THEN CHOOSE j \in 1..Len(lodLayers) : lodLayers[j] = m ELSE 0
        L == IF useLOD THEN ClearMap(Loader, m) ELSE Loader
        ts == IF useLOD THEN Taint(tasks, m) ELSE tasks
    IN
    /\ events < MaxEvents
    /\ layerStates[m].st # "none"
    /\ ~holdsOrphan
    /\ events' = events + 1
    /\ layerStates' = [layerStates EXCEPT ![m] = NoLayer]
    /\ orphans' = [orphans EXCEPT ![m] = [layerStates[m] EXCEPT !.visible = FALSE]]
    /\ lodLayers' = SelectSeq(lodLayers, LAMBDA d : d # m)
    /\ currentLOD' = IF useLOD THEN [currentLOD EXCEPT ![m] = -1] ELSE currentLOD
    /\ loadedFeatures' = L.cache
    /\ pendingLoads' = L.pending
    /\ fetches' = L.net
    /\ tasks' = [ts EXCEPT ![StaleLoad(m)] = ts[LoadTask(m)], ![LoadTask(m)] = IdleTask]
    /\ cleared' = IF useLOD THEN {m} ELSE {}
    /\ rebuilt' = {}
    /\ loads' = [loads EXCEPT ![StaleLoad(m)] = loads[m], ![m] = IdleLoad]
    /\ passes' = [p \in Passes |->
                    IF passes[p].st = "idle"
                    THEN passes[p]
                    ELSE [passes[p] EXCEPT
                            !.orphan = @ \/ passes[p].map = m,
                            !.pos = IF useLOD /\ place <= @ THEN @ - 1 ELSE @]]
    /\ UNCHANGED <<lastFailed, view, zoom, labelVars, queryVars, indexVars, timeSlider>>

\* A showLayer that shows the state object the finished load holds.
ShowLayerHeld(mine, registered) ==
    [mine |-> [mine EXCEPT !.visible = TRUE], registered |-> registered]

\* if (show) this.showLayer(id) at the end of a load (part_002:542-544) whose
\* state object mine is no longer the one in layerStates: showLayer looks the
\* id up (part_002:712-721) and shows the state that is registered under it,
\* when there is one and it is loaded.
ShowLayer(mine, registered) ==
    [mine |-> mine,
     registered |-> IF registered.st = "loaded"
                    THEN [registered EXCEPT !.visible = TRUE]
                    ELSE registered]

\* The loadFeatures call of the load of m that holds the orphan returns: its
\* features are added to the orphan, and the load goes on with its next batch
\* or finishes (part_002:517-547).
StaleLoadResume(m) ==
    /\ loads[StaleLoad(m)].st = "await"
    /\ tasks[StaleLoad(m)].st = "await"
    /\ BatchJoined(tasks[StaleLoad(m)])
    /\ UNCHANGED <<view, zoom, lodLayers, passes, events, labelVars, queryVars, indexVars, timeSlider>>
    /\ LET a == Advance(Loader, tasks[StaleLoad(m)])
           ld == loads[StaleLoad(m)]
           mine == AddFeatures(orphans[m], m, ld.lod, a.t.results)
           S == RunState(a.L, layerStates, currentLOD)
       IN /\ a.t.st = "done"
          /\ IF ld.i + BatchWidth < Len(ld.indices)
             THEN LET r == LoadLoop(S, m, ld.lod, ld.indices, ld.i + BatchWidth)
                  IN /\ Commit(r, StaleLoad(m))
                     /\ loads' = [loads EXCEPT ![StaleLoad(m)] = LoadOf(r, ld.lod, ld.indices)]
                     /\ orphans' = [orphans EXCEPT ![m] = mine]
             ELSE LET shown == ShowLayer([mine EXCEPT !.st = "loaded"], layerStates[m])
                      r == [S |-> [S EXCEPT !.layers[m] = shown.registered],
                            st |-> "idle", t |-> IdleTask]
                  IN /\ Commit(r, StaleLoad(m))
                     /\ loads' = [loads EXCEPT ![StaleLoad(m)] = IdleLoad]
                     /\ orphans' = [orphans EXCEPT ![m] = shown.mine]

\* loadLayer(mapConfig, true) for a dataset that has a layer state
\* (part_002:359-365): the state is shown when it is loaded and hidden, and
\* returned; nothing is loaded.
LoadLayerAgain(m) ==
    /\ layerStates[m].st # "none"
    /\ layerStates' = [layerStates EXCEPT
                         ![m].visible = @ \/ layerStates[m].st = "loaded"]
    /\ rebuilt' = {}
    /\ cleared' = {}
    /\ UNCHANGED <<loaderVars, view, zoom, lodLayers, currentLOD, passes, loads, events,
                   labelVars, queryVars, indexVars, orphans, timeSlider>>

UnloadNext ==
    \/ \E v \in Views, z \in Zooms : OnMoveZoomEnd(v, z)
    \/ \E p \in Passes : PassResume(p)
    \/ \E m \in MapIds : LoadLayer(m)
    \/ \E m \in MapIds : LoadLayerAgain(m)
    \/ \E m \in MapIds : LoadResume(m)
    \/ \E m \in MapIds : StaleLoadResume(m)
    \/ \E m \in MapIds : HideLayer(m)
    \/ \E m \in MapIds : UnloadLayer(m)
    \/ NetSucceeds
    \/ NetFails

SpecUnload == Init /\ [][UnloadNext]_vars

\* Two callers for the liveness of one call: c1 loads three indices (two
\* batches), c2 loads the index of c1's last batch, and clearMap runs at any
\* time.  Every fetch in flight settles at some time, and a call whose batch
\* has settled is resumed by the event loop.
LiveCall(c) == IF c = "c1" THEN <<"a", <<0, 1, 2>>, 1>> ELSE <<"a", <<2>>, 1>>
LiveKeys == {KeyOf("a", x, 1) : x \in 0..2}

LiveNext ==
    \/ \E c \in Clients : ClientCall(c, LiveCall(c)[1], LiveCall(c)[2], LiveCall(c)[3])
    \/ \E c \in Clients : ClientResume(c)
    \/ \E c \in Clients : ClientReturn(c)
    \/ ClientClearMap("a")
    \/ \E f \in FetchIds : FetchSucceeds(f)
    \/ \E f \in FetchIds : FetchFails(f)

SpecLoaderFair ==
    /\ Init
    /\ [][LiveNext]_vars
    /\ \A c \in Clients : WF_vars(ClientResume(c))
    /\ \A f \in LiveKeys \X (1..MaxGen) : WF_vars(FetchSucceeds(f) \/ FetchFails(f))

\* ------------------------------------------------- the loader's queries
\* The query functions read the loader's tables and change nothing.  They are
\* called on every cache over the levels of two features of one dataset, with
\* id lists of up to MaxIds ids, repetitions and any order included.
MaxIds == 2
MaxZoomLevel == 14
ZoomLevels == 0..MaxZoomLevel
QueryCaches == SUBSET {K \in Keys : K[1] = "a" /\ K[2] \in 0..1}
IdLists(m) == UNION {[1..n -> {<<m, x>> : x \in NearIdx(m)}] : n \in 0..MaxIds}

InitQueries ==
    /\ loadedFeatures \in QueryCaches
    /\ pendingLoads = [K \in Keys |-> 0]
    /\ fetches = {}
    /\ tasks = [c \in TaskIds |-> IdleTask]
    /\ lastFailed = {}
    /\ view = DefaultView
    /\ zoom = DefaultZoom
    /\ layerStates = [m \in MapIds |-> NoLayer]
    /\ lodLayers = <<>>
    /\ currentLOD = [m \in MapIds |-> -1]
    /\ passes = [p \in Passes |-> IdlePass]
    /\ loads = [l \in LoadIds |-> IdleLoad]
    /\ events = 0
    /\ rebuilt = {}
    /\ cleared = {}
    /\ allLabels = <<>>
    /\ labelsEnabled = TRUE
    /\ textScale = 100
    /\ labelMarkers = <<>>
    /\ labelError = FALSE
    /\ labelsBefore = <<>>
    /\ query = NoQuery
    /\ answer = <<>>
    /\ answerList = "none"
    /\ initialized = TRUE
    /\ spatialIndexByMap = SpatialIndexByMap
    /\ inits = [k \in InitIds |-> "returned"]
    /\ orphans = [m \in MapIds |-> NoLayer]
    /\ timeSlider = NewTimeSlider

\* A caller calls getFeaturesToLoad(m, ids, targetLOD).
GetFeaturesToLoadCall(m, ids, targetLOD) ==
    /\ query' = [op |-> "getFeaturesToLoad", mapId |-> m, ids |-> ids, lod |-> targetLOD]
    /\ answer' = GetFeaturesToLoad(loadedFeatures, m, ids, targetLOD)
    /\ answerList' = "new"
    /\ UNCHANGED <<loaderVars, view, zoom, layerStates, lodLayers, currentLOD, passes,
                   loads, events, labelVars, rebuilt, cleared, indexVars, orphans, timeSlider>>

\* A caller calls getLODForZoom(z).
GetLODForZoomCall(z) ==
    /\ query' = [op |-> "getLODForZoom", zoom |-> z]
    /\ answer' = GetLODForZoom(z)
    /\ answerList' = "none"
    /\ UNCHANGED <<loaderVars, view, zoom, layerStates, lodLayers, currentLOD, passes,
                   loads, events, labelVars, rebuilt, cleared, indexVars, orphans, timeSlider>>

QueryNext ==
    \/ \E m \in MapIds, L \in LODs : \E ids \in IdLists(m) : GetFeaturesToLoadCall(m, ids, L)
    \/ \E z \in ZoomLevels : GetLODForZoomCall(z)

SpecQueries == InitQueries /\ [][QueryNext]_vars


\* ------------------------------------------------------ label placement
\* updateLabels (part_002:973-1108) is synchronous: one call is one step.  A
\* label entry is named by a letter; LabelInfo gives what the call reads of
\* it: whether its layer has getBounds (polygon), getLatLng (point) or
\* neither, its priority, the bounds of its layer, the anchor of its label (the
\* point on the feature, or getLatLng), the lengths of the words of its
\* text, and whether reading its
\* geometry throws, in the bounds lookup or in the anchor computation.
\* Coordinates are <<lng, lat>>, bounds <<west, south, east, north>>.
Padding == 8
\* The side of the map container in pixels.
ContainerSize == 340
MaxLabels == 3

LabelPool == {"A", "B", "C", "D", "E", "F", "G", "H", "K", "L", "M"}
TextScales == {100, 200}

LabelInfo(id) ==
    CASE id = "A" -> [kind |-> "polygon", priority |-> 3, bbox |-> <<0, 4, 2, 6>>,
                      anchor |-> <<1, 5>>, words |-> <<2>>, err |-> "none"]
      [] id = "B" -> [kind |-> "polygon", priority |-> 2, bbox |-> <<1, 4, 3, 6>>,
                      anchor |-> <<2, 5>>, words |-> <<7>>, err |-> "none"]
      [] id = "C" -> [kind |-> "point", priority |-> 1, bbox |-> <<3, 5, 3, 5>>,
                      anchor |-> <<3, 5>>, words |-> <<2>>, err |-> "none"]
      [] id = "D" -> [kind |-> "point", priority |-> 3, bbox |-> <<1, 4, 1, 4>>,
                      anchor |-> <<1, 4>>, words |-> <<2>>, err |-> "none"]
      [] id = "E" -> [kind |-> "polygon", priority |-> 0, bbox |-> <<8, 4, 14, 6>>,
                      anchor |-> <<11, 5>>, words |-> <<2>>, err |-> "none"]
      [] id = "F" -> [kind |-> "point", priority |-> 2, bbox |-> <<12, 5, 12, 5>>,
                      anchor |-> <<12, 5>>, words |-> <<2>>, err |-> "none"]
      [] id = "G" -> [kind |-> "polygon", priority |-> 2, bbox |-> <<0, 0, 1, 1>>,
                      anchor |-> <<0, 0>>, words |-> <<2>>, err |-> "bounds"]
      [] id = "L" -> [kind |-> "point", priority |-> 4, bbox |-> <<5, 8, 5, 8>>,
                      anchor |-> <<5, 8>>, words |-> <<11>>, err |-> "none"]
      [] id = "M" -> [kind |-> "polygon", priority |-> 1, bbox |-> <<7, 1, 9, 3>>,
                      anchor |-> <<8, 2>>, words |-> <<9, 2, 9, 5, 7>>, err |-> "none"]
      [] id = "H" -> [kind |-> "polygon", priority |-> 2, bbox |-> <<4, 4, 6, 6>>,
                      anchor |-> <<5, 5>>, words |-> <<2>>, err |-> "anchor"]
      [] OTHER    -> [kind |-> "other", priority |-> 5, bbox |-> <<4, 1, 6, 3>>,
                      anchor |-> <<5, 2>>, words |-> <<2>>, err |-> "none"]

\* bounds.intersects(layerBounds) of Leaflet: closed rectangles that share a
\* point intersect.
Intersects(bounds, b) ==
    /\ b[4] >= bounds[2] /\ b[2] <= bounds[4]
    /\ b[3] >= bounds[1] /\ b[1] <= bounds[3]

\* bounds.contains(center) of Leaflet: the border is inside.
Contains(bounds, p) ==
    /\ p[2] >= bounds[2] /\ p[2] <= bounds[4]
    /\ p[1] >= bounds[1] /\ p[1] <= bounds[3]

\* map.latLngToContainerPoint(center), part_002:1033: x grows to the east from
\* the west edge, y grows to the south from the north edge, the viewport
\* filling the container (a linear projection).
LatLngToContainerPoint(bounds, p) ==
    <<((p[1] - bounds[1]) * ContainerSize) \div (bounds[3] - bounds[1]),
      ((bounds[4] - p[2]) * ContainerSize) \div (bounds[4] - bounds[2])>>

\* fontSize, part_002:983: Math.round(12 * (textScale / 100))
FontSize(scale) == (12 * scale + 50) \div 100

\* Widths and heights are in hundredths of a pixel.
\* charWidth = fontSize * 0.65 and lineHeight = fontSize * 1.5, part_002:1037-1038
CharWidth(fontSize) == 65 * fontSize
LineHeight(fontSize) == 150 * fontSize

\* A text is the list of the lengths of its words, with one space between
\* two words.
RECURSIVE SumOf(_)
SumOf(words) == IF words = <<>> THEN 0 ELSE Head(words) + SumOf(Tail(words))
TextLength(words) == SumOf(words) + Len(words) - 1
\* words.reduce((a, b) => a.length > b.length ? a : b, ''), part_002:1046
LongestWord(words) == CHOOSE n \in SeqToSet(words) : \A k \in SeqToSet(words) : k <= n

\* Math.min(180, Math.round(idealMaxWidth)) in pixels, part_002:1040-1042,
\* 1048, for the text lengths and the font sizes there are, computed once:
\* idealMaxWidth is the square root of
\* text.length * charWidth * lineHeight * 1.618, and n is its rounding when
\* (2n - 1)^2 <= 4 * idealMaxWidth^2 < (2n + 1)^2.
IdealWidths ==
    LET Rounded(length, fontSize) ==
            LET x == 31551 * length * fontSize * fontSize
            IN IF x >= 359 * 359 * 5000
               THEN 180
               ELSE CHOOSE n \in 0..179 :
                        /\ (2 * n - 1) * (2 * n - 1) * 5000 <= x
                        /\ x < (2 * n + 1) * (2 * n + 1) * 5000
    IN [fontSize \in {FontSize(scale) : scale \in TextScales} |->
           [length \in {TextLength(LabelInfo(id).words) : id \in LabelPool} |->
               Rounded(length, fontSize)]]

IdealWidthUpTo180(words, fontSize) == IdealWidths[fontSize][TextLength(words)]

\* A wrap width that never exceeds 180 pixels.
MaxWidthWithin180(words, fontSize) ==
    Min(18000, Max(CharWidth(fontSize) * LongestWord(words) + 1000,
                   100 * IdealWidthUpTo180(words, fontSize)))

\* maxWidth, part_002:1045-1048
MaxWidth(words, fontSize) ==
    Max(CharWidth(fontSize) * LongestWord(words) + 1000,
        100 * IdealWidthUpTo180(words, fontSize))

\* actualLabelWidth, part_002:1051
ActualLabelWidth(words, fontSize) ==
    Min(TextLength(words) * CharWidth(fontSize), MaxWidth(words, fontSize))

\* The simulated word wrap, part_002:1054-1065: the number of lines when the
\* words left are laid out behind a line of width currentLineWidth.
RECURSIVE NumLines(_, _, _, _)
NumLines(words, currentLineWidth, maxWidth, fontSize) ==
    IF words = <<>>
    THEN 1
    ELSE LET wordWidth == Head(words) * CharWidth(fontSize) IN
         IF currentLineWidth + wordWidth > maxWidth /\ currentLineWidth > 0
         THEN 1 + NumLines(Tail(words), wordWidth, maxWidth, fontSize)
         ELSE NumLines(Tail(words), currentLineWidth + wordWidth + CharWidth(fontSize),
                       maxWidth, fontSize)

\* labelHeight, part_002:1067
LabelHeight(words, fontSize) ==
    NumLines(words, 0, MaxWidth(words, fontSize), fontSize) * LineHeight(fontSize)

\* labelBox, part_002:1072-1077, in two-hundredths of a pixel (so that half
\* the width is a whole number): pt is in pixels, w and h in hundredths.
LabelBox(pt, w, h) ==
    [left |-> 200 * pt[1] - w - 200 * Padding,
     right |-> 200 * pt[1] + w + 200 * Padding,
     top |-> 200 * pt[2] - 200 * Padding,
     bottom |-> 200 * pt[2] + 2 * h + 200 * Padding]

BoxOf(bounds, info, scale) ==
    LabelBox(LatLngToContainerPoint(bounds, info.anchor),
             ActualLabelWidth(info.words, FontSize(scale)),
             LabelHeight(info.words, FontSize(scale)))

\* An overlap test that lets boxes touch.
OverlapsStrictly(box, existing) ==
    ~(\/ box.right <= existing.left
      \/ box.left >= existing.right
      \/ box.bottom <= existing.top
      \/ box.top >= existing.bottom)

\* An overlap test that finds every box in the way.
OverlapsAnything(box, existing) == TRUE

\* The test of placedLabels.some(...), part_002:1080-1085
Overlaps(box, existing) ==
    ~(\/ box.right < existing.left
      \/ box.left > existing.right
      \/ box.bottom < existing.top
      \/ box.top > existing.bottom)

\* A viewport test that lets every polygon and point through.
InViewportAlways(bounds, info) == info.kind \in {"polygon", "point"}

\* The tests before the try block, part_002:1006-1016: a layer with getBounds
\* goes on when its bounds intersect the viewport, a layer with getLatLng
\* when the viewport contains its point, any other layer never.
InViewport(bounds, info) ==
    CASE info.kind = "polygon" -> Intersects(bounds, info.bbox)
      [] info.kind = "point" -> Contains(bounds, info.anchor)
      [] OTHER -> FALSE

\* The entries in the order they came.
Unsorted(entries) == entries

\* allLabels.sort((a, b) => (b.priority || 0) - (a.priority || 0)),
\* part_002:998: descending, and stable (Array.prototype.sort is).
RECURSIVE SortByPriority(_)
SortByPriority(entries) ==
    IF entries = <<>>
    THEN <<>>
    ELSE LET h == Head(entries)
             rest == SortByPriority(Tail(entries))
             ahead == {j \in 1..Len(rest) :
                          \A k \in 1..j : LabelInfo(rest[k]).priority > LabelInfo(h).priority}
         IN SubSeq(rest, 1, Cardinality(ahead)) \o <<h>>
               \o SubSeq(rest, Cardinality(ahead) + 1, Len(rest))

\* The loop of updateLabels (part_002:1001-1107) over the sorted entries left
\* in queue, with the labels placed so far.  The bounds lookup is outside the
\* try block: an error there ends the call with the exception, the labels
\* placed so far staying on the map.  An error in the anchor computation is
\* caught, and the loop goes on.
RECURSIVE PlaceLabels(_, _, _, _)
PlaceLabels(queue, placed, bounds, scale) ==
    IF queue = <<>>
    THEN [markers |-> placed, threw |-> FALSE]
    ELSE
    LET info == LabelInfo(Head(queue)) IN
    IF info.kind = "polygon" /\ info.err = "bounds"
    THEN [markers |-> placed, threw |-> TRUE]
    ELSE IF ~InViewport(bounds, info)
    THEN PlaceLabels(Tail(queue), placed, bounds, scale)
    ELSE IF info.err = "anchor"
    THEN PlaceLabels(Tail(queue), placed, bounds, scale)
    ELSE IF \E k \in 1..Len(placed) :
                Overlaps(BoxOf(bounds, info, scale), BoxOf(bounds, LabelInfo(placed[k]), scale))
    THEN PlaceLabels(Tail(queue), placed, bounds, scale)
    ELSE PlaceLabels(Tail(queue), Append(placed, Head(queue)), bounds, scale)

\* A pass that keeps the labels of the pass before it, and places the new
\* ones around them.
UpdateLabelsKeeping(entries, bounds, enabled, scale) ==
    IF ~enabled
    THEN [markers |-> labelMarkers, threw |-> FALSE]
    ELSE PlaceLabels(SortByPriority(entries), labelMarkers, bounds, scale)

\* updateLabels(), part_002:973-1108: the markers of the pass before are
\* taken off the map and labelMarkers and placedLabels start empty
\* (part_002:977-978, 987).
UpdateLabels(entries, bounds, enabled, scale) ==
    IF ~enabled
    THEN [markers |-> <<>>, threw |-> FALSE]
    ELSE PlaceLabels(SortByPriority(entries), <<>>, bounds, scale)

LabelPass(entries, bounds, enabled, scale) ==
    /\ labelMarkers' = UpdateLabels(entries, bounds, enabled, scale).markers
    /\ labelError' = UpdateLabels(entries, bounds, enabled, scale).threw
    /\ labelsBefore' = labelMarkers

\* A layer with the one label entry id is loaded and shown: layerStates gets
\* it last, and showLayer calls updateLabels (part_002:712-721).
LabelLayerShown(id) ==
    /\ id \notin SeqToSet(allLabels)
    /\ Len(allLabels) < MaxLabels
    /\ allLabels' = Append(allLabels, id)
    /\ LabelPass(allLabels', view, labelsEnabled, textScale)
    /\ UNCHANGED <<loaderVars, view, zoom, layerStates, lodLayers, currentLOD, passes,
                   loads, events, rebuilt, cleared, labelsEnabled, textScale, queryVars, indexVars, orphans, timeSlider>>

\* The layer of label entry id is hidden or unloaded: hideLayer and
\* unloadLayer call updateLabels (part_002:726-735, 762-777).
LabelLayerHidden(id) ==
    /\ id \in SeqToSet(allLabels)
    /\ allLabels' = SelectSeq(allLabels, LAMBDA x : x # id)
    /\ LabelPass(allLabels', view, labelsEnabled, textScale)
    /\ UNCHANGED <<loaderVars, view, zoom, layerStates, lodLayers, currentLOD, passes,
                   loads, events, rebuilt, cleared, labelsEnabled, textScale, queryVars, indexVars, orphans, timeSlider>>

\* moveend or zoomend: the handler of part_002:259 calls updateLabels.
LabelsOnMoveEnd(v) ==
    /\ view' = v
    /\ LabelPass(allLabels, v, labelsEnabled, textScale)
    /\ UNCHANGED <<loaderVars, zoom, layerStates, lodLayers, currentLOD, passes,
                   loads, events, rebuilt, cleared, allLabels, labelsEnabled, textScale, queryVars, indexVars, orphans, timeSlider>>

\* setLabelsEnabled(enabled), part_002:955-958
SetLabelsEnabled(enabled) ==
    /\ labelsEnabled' = enabled
    /\ LabelPass(allLabels, view, enabled, textScale)
    /\ UNCHANGED <<loaderVars, view, zoom, layerStates, lodLayers, currentLOD, passes,
                   loads, events, rebuilt, cleared, allLabels, textScale, queryVars, indexVars, orphans, timeSlider>>

\* setTextScale(scale), part_002:963-966
SetTextScale(scale) ==
    /\ textScale' = scale
    /\ LabelPass(allLabels, view, labelsEnabled, scale)
    /\ UNCHANGED <<loaderVars, view, zoom, layerStates, lodLayers, currentLOD, passes,
                   loads, events, rebuilt, cleared, allLabels, labelsEnabled, queryVars, indexVars, orphans, timeSlider>>

LabelNext ==
    \/ \E id \in LabelPool : LabelLayerShown(id)
    \/ \E id \in LabelPool : LabelLayerHidden(id)
    \/ \E v \in Views : LabelsOnMoveEnd(v)
    \/ \E e \in BOOLEAN : SetLabelsEnabled(e)
    \/ \E scale \in TextScales : SetTextScale(scale)

SpecLabels == Init /\ [][LabelNext]_vars

\* ------------------------------------------------- the index and its load
\* The constructor of MapController calls featureLoader.init() and does not
\* wait for it (part_002:117); init() is public, and further calls can be
\* made while one is waiting.  A call is at "fetch" (waiting for the response,
\* part_001:30), at "json" (waiting for the body, part_001:36) or has
\* returned.  Layers are loaded and the queries are called at any time.
Wards == [m \in MapIds |-> IF m = "a" THEN 120 ELSE 10]
Fifty == [m \in MapIds |-> IF m = "a" THEN 50 ELSE 49]
\* What response.json() gives: an error, a body without features, a features
\* list with a null after its first 60 records, or a manifest.
Bodies == {"parse error", "no features", "malformed", "wards", "fifty"}
QueryIds == MapIds \cup {"c"}
QueryViews == Views \cup {<<-70, 540, -60, 545>>, <<100, 100, 110, 110>>}

InitIndex ==
    /\ loadedFeatures = {}
    /\ pendingLoads = [K \in Keys |-> 0]
    /\ fetches = {}
    /\ tasks = [c \in TaskIds |-> IdleTask]
    /\ lastFailed = {}
    /\ view = DefaultView
    /\ zoom = DefaultZoom
    /\ layerStates = [m \in MapIds |-> NoLayer]
    /\ lodLayers = <<>>
    /\ currentLOD = [m \in MapIds |-> -1]
    /\ passes = [p \in Passes |-> IdlePass]
    /\ loads = [l \in LoadIds |-> IdleLoad]
    /\ events = 0
    /\ rebuilt = {}
    /\ cleared = {}
    /\ allLabels = <<>>
    /\ labelsEnabled = TRUE
    /\ textScale = 100
    /\ labelMarkers = <<>>
    /\ labelError = FALSE
    /\ labelsBefore = <<>>
    /\ query = NoQuery
    /\ answer = <<>>
    /\ answerList = "none"
    /\ initialized = FALSE
    /\ spatialIndexByMap = NoIndex
    /\ inits = [k \in InitIds |-> IF k = 1 THEN "fetch" ELSE "idle"]
    /\ orphans = [m \in MapIds |-> NoLayer]
    /\ timeSlider = NewTimeSlider

IndexFrame ==
    UNCHANGED <<loaderVars, view, zoom, layerStates, lodLayers, currentLOD, passes,
                loads, events, rebuilt, cleared, labelVars, orphans, timeSlider>>

\* init(), part_001:22-30: returns at once when the index is loaded, else
\* asks for the manifest.
InitCall(k) ==
    /\ inits[k] = "idle"
    /\ inits' = [inits EXCEPT ![k] = IF initialized THEN "returned" ELSE "fetch"]
    /\ UNCHANGED <<initialized, spatialIndexByMap, queryVars>>
    /\ IndexFrame

\* The manifest fetch of call k settles (part_001:30-34, 49-51): with a
\* response that is ok, with one that is not (init warns and returns), or
\* with a network error (caught).
InitResponse(k, outcome) ==
    /\ inits[k] = "fetch"
    /\ inits' = [inits EXCEPT ![k] = IF outcome = "ok" THEN "json" ELSE "returned"]
    /\ UNCHANGED <<initialized, spatialIndexByMap, queryVars>>
    /\ IndexFrame

\* What the rest of init() (part_001:36-51) makes of a body.
IndexAfter(index, body) ==
    CASE body = "wards" -> GroupByMap(index, ManifestFeatures(Wards))
      [] body = "fifty" -> GroupByMap(index, ManifestFeatures(Fifty))
      [] body = "malformed" -> GroupByMap(index, SubSeq(ManifestFeatures(Wards), 1, 60))
      [] OTHER -> index

\* The body of call k arrives (part_001:36-51).  data.features || [] is
\* grouped and initialized is set; an error of json(), or of the loop at a
\* record that is null, is caught, and what the loop has pushed stays.
InitJson(k, body) ==
    /\ inits[k] = "json"
    /\ inits' = [inits EXCEPT ![k] = "returned"]
    /\ spatialIndexByMap' = IndexAfter(spatialIndexByMap, body)
    /\ initialized' = IF body \in {"parse error", "malformed"} THEN initialized ELSE TRUE
    /\ UNCHANGED queryVars
    /\ IndexFrame

QueryFrame ==
    UNCHANGED <<loaderVars, view, zoom, layerStates, lodLayers, currentLOD, passes,
                loads, events, rebuilt, cleared, labelVars, indexVars, orphans, timeSlider>>

\* A caller calls supportsLOD(m).  (For a dataset without a list the code
\* returns undefined, which its callers test as false.)
SupportsLODCall(m) ==
    /\ query' = [op |-> "supportsLOD", mapId |-> m]
    /\ answer' = SupportsLOD(m)
    /\ answerList' = "none"
    /\ QueryFrame

\* A caller calls getFeatureCount(m).
GetFeatureCountCall(m) ==
    /\ query' = [op |-> "getFeatureCount", mapId |-> m]
    /\ answer' = GetFeatureCount(m)
    /\ answerList' = "none"
    /\ QueryFrame

\* A caller calls getFeaturesInBounds(m, bounds).
GetFeaturesInBoundsCall(m, bounds) ==
    /\ query' = [op |-> "getFeaturesInBounds", mapId |-> m, bounds |-> bounds]
    /\ answer' = GetFeaturesInBounds(m, bounds)
    /\ answerList' = FilteredList(m)
    /\ QueryFrame

\* The layer loadLayer makes of the dataset's file, part_002:418-464: one
\* geometry layer for the whole file, named as no feature key is.
WholeFile(m) == <<m, -1, -1>>

\* loadLayer(mapConfig, true) for a dataset with no layer state that does not
\* support LOD (part_002:355-416): the state is created and the dataset's
\* file is asked for.
LoadLayerWholesale(m) ==
    /\ layerStates[m].st = "none"
    /\ ~SupportsLOD(m)
    /\ layerStates' = [layerStates EXCEPT ![m] = NewLayer]
    /\ loads' = [loads EXCEPT ![m] = [IdleLoad EXCEPT !.st = "file"]]
    /\ rebuilt' = {}
    /\ cleared' = {}
    /\ UNCHANGED <<loaderVars, view, zoom, lodLayers, currentLOD, passes, events,
                   labelVars, queryVars, indexVars, orphans, timeSlider>>

\* The file of m has arrived (part_002:418-479): its layer is added, and the
\* state is loaded and shown.
DataFileLoaded(m) ==
    /\ loads[m].st = "file"
    /\ layerStates' = [layerStates EXCEPT ![m] =
                          [AddFeatureToLayer(@, WholeFile(m)) EXCEPT !.st = "loaded", !.visible = TRUE]]
    /\ loads' = [loads EXCEPT ![m] = IdleLoad]
    /\ rebuilt' = {}
    /\ cleared' = {}
    /\ UNCHANGED <<loaderVars, view, zoom, lodLayers, currentLOD, passes, events,
                   labelVars, queryVars, indexVars, orphans, timeSlider>>

\* The file of m could not be loaded (part_002:480-485): the error is caught,
\* the state is deleted and loadLayer returns null.
DataFileFailed(m) ==
    /\ loads[m].st = "file"
    /\ layerStates' = [layerStates EXCEPT ![m] = NoLayer]
    /\ loads' = [loads EXCEPT ![m] = IdleLoad]
    /\ rebuilt' = {}
    /\ cleared' = {}
    /\ UNCHANGED <<loaderVars, view, zoom, lodLayers, currentLOD, passes, events,
                   labelVars, queryVars, indexVars, orphans, timeSlider>>

IndexNext ==
    \/ \E k \in InitIds : InitCall(k)
    \/ \E k \in InitIds, outcome \in {"ok", "not ok", "error"} : InitResponse(k, outcome)
    \/ \E k \in InitIds, body \in Bodies : InitJson(k, body)
    \/ \E m \in QueryIds : SupportsLODCall(m)
    \/ \E m \in QueryIds : GetFeatureCountCall(m)
    \/ \E m \in QueryIds, v \in QueryViews : GetFeaturesInBoundsCall(m, v)
    \/ \E m \in MapIds : LoadLayerWholesale(m)
    \/ \E m \in MapIds : LoadLayer(m)
    \/ \E m \in MapIds : DataFileLoaded(m)
    \/ \E m \in MapIds : DataFileFailed(m)

SpecIndex == InitIndex /\ [][IndexNext]_vars

\* ------------------------------------------------------- the time slider
\* TimeSliderController (part_000) with the chains of DataService (part_003).
\* Two time series: w1, w2 dated 10, 30 and c1, c2 dated 20, 40; n is a map of
\* no series.  Dates are timestamps.
MaxSwaps == 2
SliderMaps == <<"c1", "c2", "n", "w1", "w2">>
MapDate(id) ==
    CASE id = "w1" -> [chain |-> "w", timestamp |-> 10]
      [] id = "w2" -> [chain |-> "w", timestamp |-> 30]
      [] id = "c1" -> [chain |-> "c", timestamp |-> 20]
      [] id = "c2" -> [chain |-> "c", timestamp |-> 40]
      [] OTHER -> [chain |-> "none", timestamp |-> 0]

\* An index past the end of the dates.
FindIndexPastEnd(dates, timestamp) == Len(dates)

\* findClosestDateIndex(timestamp), part_000:175-188: the first index with
\* the least distance; 0 when there are no dates.  Indices count from 0.
FindClosestDateIndex(dates, timestamp) ==
    LET diff(i) == IF dates[i] >= timestamp THEN dates[i] - timestamp ELSE timestamp - dates[i]
    IN IF dates = <<>>
       THEN 0
       ELSE (CHOOSE i \in 1..Len(dates) :
                \A j \in 1..Len(dates) :
                    diff(i) <= diff(j) /\ (j < i => diff(j) > diff(i))) - 1

\* getEquivalentMapsForDate(activeMapIds, targetTimestamp), part_003:487-519:
\* a map of no chain stays; a map of a chain becomes the latest map of the
\* chain that is not after the target, or null.
GetEquivalentMapsForDate(ids, target) ==
    [id \in ids |->
        IF MapDate(id).chain = "none"
        THEN id
        ELSE LET inChain == {SliderMaps[k] : k \in {j \in 1..Len(SliderMaps) :
                                MapDate(SliderMaps[j]).chain = MapDate(id).chain}}
                 notAfter == {x \in inChain : MapDate(x).timestamp <= target}
             IN IF notAfter = {}
                THEN "null"
                ELSE CHOOSE x \in notAfter :
                         \A y \in notAfter : MapDate(y).timestamp <= MapDate(x).timestamp]

\* updateForActiveLayers(activeMapIds), part_000:64-127.  The dates are the
\* timestamps of all maps in the chains of the ids (getApplicableDates,
\* part_003:469-481, sorts them newest first), reversed to oldest first.
UpdateForActiveLayers(ts, ids) ==
    IF ts.applyingDateChange
    THEN ts
    ELSE LET hadDate == ts.dates # <<>> /\ ts.currentIndex + 1 \in 1..Len(ts.dates)
             chains == {MapDate(id).chain : id \in ids} \ {"none"}
             stamps == {MapDate(SliderMaps[k]).timestamp :
                           k \in {j \in 1..Len(SliderMaps) :
                                     MapDate(SliderMaps[j]).chain \in chains}}
             dates == CHOOSE d \in [1..Cardinality(stamps) -> stamps] :
                          \A i, j \in 1..Cardinality(stamps) : i < j => d[i] < d[j]
         IN IF dates = <<>>
            THEN [ts EXCEPT !.dates = <<>>]
            ELSE IF ts.dates # <<>> /\ ~ts.preSliderState.null
            THEN [ts EXCEPT !.dates = dates,
                            !.currentIndex = IF hadDate
                                             THEN FindClosestDateIndex(dates, ts.dates[ts.currentIndex + 1])
                                             ELSE 0]
            ELSE [ts EXCEPT !.dates = dates,
                            !.currentIndex = Len(dates) - 1,
                            !.preSliderState = NewTimeSlider.preSliderState]

\* The loop of applyDateChange (part_000:351-379), and of
\* restorePreSliderState (part_000:319-324), over the pairs left, up to the
\* next await or to the end.  At the end of applyDateChange the finally block
\* clears the guard (part_000:380-382) and onLayersChanged has the
\* application call updateForActiveLayers (part_000:385-387, app.js:247-250,
\* 1357).
RECURSIVE SwapLoop(_, _, _)
SwapLoop(ts, kind, todo) ==
    IF todo = <<>>
    THEN IF kind = "apply"
         THEN UpdateForActiveLayers([ts EXCEPT !.applyingDateChange = FALSE], ts.loaded)
         ELSE ts
    ELSE LET ts1 == [ts EXCEPT !.loaded = @ \ {Head(todo)[1]}]
         IN IF Head(todo)[2] = "null"
            THEN SwapLoop(ts1, kind, Tail(todo))
            ELSE [ts1 EXCEPT !.swaps = Append(@, [kind |-> kind, awaiting |-> Head(todo)[2],
                                                  todo |-> Tail(todo)])]

\* applyDateChange(), part_000:333-397, up to its first await or to its end.
\* The guard is set and, in the finally block, cleared also when no layer
\* changes.  A date read past the list is undefined, no timestamp is <= it:
\* -1 stands for it.  The pairs are taken in the order of SliderMaps.
ApplyDateChange(ts) ==
    LET targetTimestamp == IF ts.currentIndex + 1 \in 1..Len(ts.dates)
                           THEN ts.dates[ts.currentIndex + 1]
                           ELSE -1
        equivalentMaps == GetEquivalentMapsForDate(ts.loaded, targetTimestamp)
        changing == SelectSeq(SliderMaps, LAMBDA id : id \in ts.loaded /\ equivalentMaps[id] # id)
        todo == [k \in 1..Len(changing) |-> <<changing[k], equivalentMaps[changing[k]]>>]
    IN IF todo = <<>>
       THEN [ts EXCEPT !.applyingDateChange = FALSE]
       ELSE SwapLoop([ts EXCEPT !.applyingDateChange = TRUE], "apply", todo)

\* savePreSliderState() on the first interaction, part_000:160-162, 299-303
Interacted(ts) ==
    IF ts.preSliderState.null
    THEN [ts EXCEPT !.preSliderState = [null |-> FALSE, ids |-> ts.loaded]]
    ELSE ts

SliderFrame ==
    UNCHANGED <<loaderVars, view, zoom, layerStates, lodLayers, currentLOD, passes, loads,
                events, rebuilt, cleared, labelVars, queryVars, indexVars, orphans>>

\* The application has the layers ids loaded and calls updateActiveLayers,
\* which calls updateForActiveLayers(loadedIds) (app.js:1357).
LayersChanged(ids) ==
    /\ timeSlider' = UpdateForActiveLayers([timeSlider EXCEPT !.loaded = ids], ids)
    /\ SliderFrame

\* The user drags the slider (shown while there are dates) to value:
\* handleSliderChange(), part_000:152-170
HandleSliderChange(value) ==
    /\ timeSlider.dates # <<>>
    /\ Len(timeSlider.swaps) < MaxSwaps
    /\ LET newIndex == FindClosestDateIndex(timeSlider.dates, value)
       IN timeSlider' = IF newIndex = timeSlider.currentIndex
                        THEN timeSlider
                        ELSE ApplyDateChange([Interacted(timeSlider) EXCEPT !.currentIndex = newIndex])
    /\ SliderFrame

\* stepBackward(), part_000:194-207
StepBackward ==
    /\ timeSlider.dates # <<>>
    /\ Len(timeSlider.swaps) < MaxSwaps
    /\ timeSlider' = IF timeSlider.currentIndex <= 0
                     THEN timeSlider
                     ELSE ApplyDateChange([Interacted(timeSlider) EXCEPT !.currentIndex = @ - 1])
    /\ SliderFrame

\* stepForward(), part_000:213-227
StepForward ==
    /\ timeSlider.dates # <<>>
    /\ Len(timeSlider.swaps) < MaxSwaps
    /\ timeSlider' = IF timeSlider.currentIndex >= Len(timeSlider.dates) - 1
                     THEN timeSlider
                     ELSE ApplyDateChange([Interacted(timeSlider) EXCEPT !.currentIndex = @ + 1])
    /\ SliderFrame

\* reset(), part_000:231-248, with restorePreSliderState (part_000:308-328)
\* up to its first await: the loaded layers are unloaded, the saved ones are
\* loaded one after the other.
Reset ==
    /\ timeSlider.dates # <<>>
    /\ Len(timeSlider.swaps) < MaxSwaps
    /\ timeSlider' =
          IF timeSlider.preSliderState.null
          THEN timeSlider
          ELSE LET saved == SelectSeq(SliderMaps, LAMBDA id : id \in timeSlider.preSliderState.ids)
                   todo == [k \in 1..Len(saved) |-> <<"null", saved[k]>>]
                   restoring == SwapLoop([timeSlider EXCEPT !.loaded = {}], "restore", todo)
               IN [restoring EXCEPT !.currentIndex = Len(timeSlider.dates) - 1,
                                    !.preSliderState = NewTimeSlider.preSliderState]
    /\ SliderFrame

\* The loadLayer that the k-th suspended call awaits has returned: the layer
\* is loaded, and the call goes on with its loop.
SwapResume(k) ==
    /\ k \in 1..Len(timeSlider.swaps)
    /\ LET swap == timeSlider.swaps[k]
           others == [j \in 1..(Len(timeSlider.swaps) - 1) |->
                         timeSlider.swaps[IF j < k THEN j ELSE j + 1]]
       IN timeSlider' = SwapLoop([timeSlider EXCEPT !.loaded = @ \cup {swap.awaiting},
                                                    !.swaps = others],
                                 swap.kind, swap.todo)
    /\ SliderFrame

\* The application has no layer, w2 and n, or w2 and c2 loaded; the user
\* drags the slider to 10, 15, 20 or 40.
SliderNext ==
    \/ \E ids \in {{}, {"w2", "n"}, {"w2", "c2"}} : LayersChanged(ids)
    \/ \E value \in {10, 15, 20, 40} : HandleSliderChange(value)
    \/ StepBackward
    \/ StepForward
    \/ Reset
    \/ \E k \in 1..MaxSwaps : SwapResume(k)

SpecSlider == Init /\ [][SliderNext]_vars

\* ================================================================== claims
FetchesOf(K) == {f \in fetches : f[1] = K}
Running(c) == tasks[c].st = "await"
Done(c) == tasks[c].st = "done"
SameCall(t, u) == t.mapId = u.mapId /\ t.indices = u.indices /\ t.lod = u.lod
AllOf(t) == SeqToSet(t.indices)

\* C1: for any interleaving of loadFeatures calls and clearMap calls, a key
\* has at most one network fetch in flight; every promise a call awaits is a
\* fetch in flight, and two calls that await the same key await the same
\* promise, so the later caller issues nothing and gets the first caller's
\* result.
OneFetchPerKey ==
    /\ \A K \in Keys : Cardinality(FetchesOf(K)) <= 1
    /\ \A c \in TaskIds : tasks[c].wait \subseteq fetches
    /\ \A c, d \in TaskIds :
         \A f \in tasks[c].wait, g \in tasks[d].wait : f[1] = g[1] => f = g

\* Two calls await one fetch that only the first of them issued.
SharedFetchReached ==
    \E c, d \in Clients :
        /\ c # d
        /\ \E f \in tasks[c].wait \cap tasks[d].wait :
              /\ f[1][2] \in tasks[c].issued
              /\ f[1][2] \notin tasks[d].issued

\* The batches of n indices at the width of 50 that the code sets: ceil(n/50)
\* consecutive slices, all of 50 but possibly the last; 120 give 50/50/20.
SlicesOf50 ==
    /\ \A n \in 0..MaxSlice :
         LET ind == [k \in 1..n |-> k - 1]
             b == Batches(ind, CONCURRENT_LOADS)
         IN /\ Len(b) = (n + CONCURRENT_LOADS - 1) \div CONCURRENT_LOADS
            /\ \A j \in 1..Len(b) :
                 /\ Len(b[j]) = IF j < Len(b) THEN CONCURRENT_LOADS
                                ELSE n - CONCURRENT_LOADS * (j - 1)
                 /\ \A k \in 1..Len(b[j]) : b[j][k] = ind[CONCURRENT_LOADS * (j - 1) + k]
    /\ LET b == Batches([k \in 1..120 |-> k - 1], CONCURRENT_LOADS)
       IN <<Len(b[1]), Len(b[2]), Len(b[3])>> = <<50, 50, 20>> /\ Len(b) = 3

\* C2: one loadFeatures call cuts its indices in order into consecutive
\* batches of the batch width (the last may be shorter), and while the batch
\* at offset i is in flight every index of the earlier batches has settled
\* (with a payload or with null) and no index of a later batch was attempted.
BatchesSequential ==
    /\ SlicesOf50
    /\ \A c \in Clients :
         Running(c) =>
            LET t == tasks[c] IN
            /\ t.i % BatchWidth = 0
            /\ t.i < Len(t.indices)
            /\ Slice(t.indices, t.i, BatchWidth) = Batches(t.indices, BatchWidth)[(t.i \div BatchWidth) + 1]
            /\ \A k \in 1..t.i : t.indices[k] \in t.ok \cup t.nul
            /\ \A f \in t.wait : f[1] \in CalledAt(t, t.i)
            /\ t.ok \cup t.nul \cup t.issued \subseteq
                  SeqToSet(SubSeq(t.indices, 1, Min(t.i + BatchWidth, Len(t.indices))))

\* A call waits for its second batch after an index of its first batch failed.
SecondBatchReached ==
    \E c \in Clients :
        /\ Running(c)
        /\ tasks[c].i = BatchWidth
        /\ tasks[c].wait # {}
        /\ tasks[c].nul # {}

\* C3: the number of network fetches in flight is at most the batch width in
\* every reachable state, also when fetch passes overlap.
InFlightWithinBatchWidth == Cardinality(fetches) <= BatchWidth

Ops(t, x) == IF x \in t.issued THEN 1 ELSE 0
TwoCalls(c, d) ==
    /\ c # d
    /\ SameCall(tasks[c], tasks[d])
    /\ ~tasks[c].tainted
    /\ ~tasks[d].tainted

\* C4 as claimed: two identical loadFeatures calls with no clearMap between
\* them cause exactly one network operation for each key they had to fetch.
TwoCallsOneFetch ==
    \A c, d \in Clients :
        (TwoCalls(c, d) /\ Done(c) /\ Done(d)) =>
            \A x \in tasks[c].issued \cup tasks[d].issued :
                Ops(tasks[c], x) + Ops(tasks[d], x) = 1

\* C4 as amended: two identical loadFeatures calls with no clearMap between
\* them cause at most one network operation per key, except for a key whose
\* fetch failed in one of the calls: only such a key is fetched by both.
TwoCallsOneFetchUnlessFailed ==
    \A c, d \in Clients :
        (TwoCalls(c, d) /\ tasks[c].st \in {"await", "done"} /\ tasks[d].st \in {"await", "done"}) =>
            \A x \in AllOf(tasks[c]) :
                \/ Ops(tasks[c], x) + Ops(tasks[d], x) <= 1
                \/ x \in tasks[c].nul \cup tasks[d].nul

\* Two identical calls of three indices are done, nothing failed, and each
\* index was fetched by exactly one of them.
TwoCallsDone ==
    \E c, d \in Clients :
        /\ TwoCalls(c, d) /\ Done(c) /\ Done(d)
        /\ Len(tasks[c].indices) = 3
        /\ tasks[c].nul = {} /\ tasks[d].nul = {}
        /\ tasks[c].issued \cup tasks[d].issued = AllOf(tasks[c])
        /\ tasks[c].issued \cap tasks[d].issued = {}

CacheSatisfied(m, x, L) == HasGoodEnoughLOD(loadedFeatures, m, x, L)

\* C5 as claimed: once feature x of dataset m is cache-satisfied at level L it
\* is cache-satisfied at L in every later state.
SatisfiedForever ==
    [][\A m \in MapIds, x \in 0..2, L \in LODs :
          CacheSatisfied(m, x, L) => CacheSatisfied(m, x, L)']_vars

\* C5 as amended: a feature that is cache-satisfied at level L stays so until
\* clearMap of its dataset runs, which the LOD rebuild of updateLODLayers does
\* on every change of the displayed level.
SatisfiedUntilCleared ==
    [][\A m \in MapIds, x \in 0..2, L \in LODs :
          (CacheSatisfied(m, x, L) /\ ~CacheSatisfied(m, x, L)') =>
              m \in cleared']_vars

\* A rebuild has just cleared the cache of one dataset, at a change of its
\* displayed level, and a feature of the other dataset is still satisfied at
\* the level that dataset is displayed at.
SatisfiedBesideRebuild ==
    \E r \in rebuilt :
        /\ r.lod # currentLOD[r.map]
        /\ \A K \in loadedFeatures : K[1] # r.map
        /\ \E K \in loadedFeatures :
              /\ K[3] = currentLOD[K[1]]
              /\ CacheSatisfied(K[1], K[2], K[3])

VisibleNow(m) ==
    LET fs == GetFeaturesInBounds(m, view) IN {ParseFeatureId(fs[k].id) : k \in 1..Len(fs)}

\* C6: a rebuild of updateLODLayers leaves the dataset with no rendered
\* geometry, no label entry and no cache entry, and requests at the new level
\* every index visible in the viewport current at the time of the rebuild;
\* with nothing to request, currentLOD is the new level at once.
RebuildLoadsCurrentViewport ==
    \A r \in rebuilt :
        /\ layerStates[r.map].geoJsonLayers = EmptyBag
        /\ layerStates[r.map].labelEntries = EmptyBag
        /\ \A K \in loadedFeatures : K[1] # r.map
        /\ r.req = VisibleNow(r.map)
        /\ r.req = {} => currentLOD[r.map] = r.lod

\* C7: the geometry rendered for one dataset is all of one detail level.
OneLevelPerDataset ==
    \A m \in MapIds :
        \A J, K \in BagToSet(layerStates[m].geoJsonLayers) : J[3] = K[3]

\* C8: a failed fetch adds nothing to the cache (a key enters the cache only
\* in a step that settles a fetch of it, and not as a failure); no
\* loadFeatures call rejects; a call that is done has attempted every index,
\* in every batch, and returns exactly the payloads that loaded, in order.
FailureIsContained ==
    /\ [](\A c \in Clients :
            /\ tasks[c].st # "rejected"
            /\ Done(c) =>
                 /\ tasks[c].ok \cup tasks[c].nul = AllOf(tasks[c])
                 /\ tasks[c].ok \cap tasks[c].nul = {}
                 /\ tasks[c].results = SelectSeq(tasks[c].indices, LAMBDA x : x \in tasks[c].ok))
    /\ [][\A K \in loadedFeatures' \ loadedFeatures :
             /\ K \notin lastFailed'
             /\ \E f \in fetches \ fetches' : f[1] = K]_vars

\* A call of three indices is done: an index of its first batch failed, is
\* not in the cache, and the index of its second batch is in the results.
FailedInFirstBatchDone ==
    \E c \in Clients :
        /\ Done(c)
        /\ Len(tasks[c].indices) = 3
        /\ tasks[c].indices[1] \in tasks[c].nul
        /\ KeyOf(tasks[c].mapId, tasks[c].indices[1], tasks[c].lod) \notin loadedFeatures
        /\ tasks[c].results = <<tasks[c].indices[3]>>

\* C9: a key whose fetch failed is in neither the cache nor the pending table
\* until it is requested again, and the request that follows the failure
\* issues a new network operation for it.
FailedKeyIsRefetched ==
    [][/\ \A K \in lastFailed' : K \notin loadedFeatures' /\ pendingLoads'[K] = 0
       /\ \A K \in lastFailed \ lastFailed' : \E f \in fetches' \ fetches : f[1] = K]_vars

\* A key that failed in one call is in flight again for another call.
RefetchReached ==
    \E c, d \in Clients :
        /\ c # d
        /\ tasks[c].mapId = tasks[d].mapId /\ tasks[c].lod = tasks[d].lod
        /\ \E x \in tasks[c].nul \cap tasks[d].issued :
              FetchesOf(KeyOf(tasks[d].mapId, x, tasks[d].lod)) # {}

\* C10: a loadFeatures call is done only when every index was attempted and
\* has settled, and, every fetch settling at some time, a call that is
\* suspended is done at some later time.
LoadFeaturesSettles ==
    /\ [](\A c \in Clients :
            Done(c) =>
               /\ tasks[c].wait = {}
               /\ tasks[c].i >= Len(tasks[c].indices)
               /\ \A k \in 1..Len(tasks[c].indices) :
                     tasks[c].indices[k] \in tasks[c].ok \cup tasks[c].nul)
    /\ \A c \in Clients : Running(c) ~> Done(c)

\* A call of three indices is done with one payload and two failures.
MostlyFailedDone ==
    \E c \in Clients :
        /\ Done(c)
        /\ Len(tasks[c].indices) = 3
        /\ Cardinality(tasks[c].nul) = 2
        /\ Len(tasks[c].results) = 1

\* C11 as claimed: after clearMap(D) neither the cache nor the pending table
\* holds an entry of dataset D.
ClearMapEmptiesBoth ==
    \A m \in cleared :
        /\ \A K \in loadedFeatures : K[1] # m
        /\ \A K \in Keys : K[1] = m => pendingLoads[K] = 0

\* C11 as amended: after clearMap(D) the cache holds no entry of D, and the
\* pending table and the fetches in flight are what they were before it: the
\* entries of D whose fetches are in flight stay.
ClearMapEmptiesCacheOnly ==
    [][\A m \in cleared' :
          /\ \A K \in loadedFeatures' : K[1] # m
          /\ pendingLoads' = pendingLoads
          /\ fetches' = fetches]_vars

\* clearMap has run on a dataset of which a fetch is in flight and of which a
\* payload had been loaded: the cache has no entry of it, the pending table
\* still has one.
ClearedWhileInFlight ==
    \E m \in cleared :
        /\ \A K \in loadedFeatures : K[1] # m
        /\ \E K \in Keys : K[1] = m /\ pendingLoads[K] # 0
        /\ \E c \in Clients : tasks[c].mapId = m /\ tasks[c].tainted /\ tasks[c].ok # {}

\* C12: a fetch leaves the network only by settling, never because the
\* viewport or the level changed or its dataset was cleared, and a fetch that
\* succeeds has its key in the cache right after, superseded or not.
SupersededFetchStillCaches ==
    [][/\ \A f \in fetches \ fetches' :
             /\ f[1] \in loadedFeatures' \cup lastFailed'
             /\ f[1] \notin lastFailed' => f[1] \in loadedFeatures'
       /\ (view' # view \/ zoom' # zoom \/ cleared' # {}) => fetches \subseteq fetches']_vars

\* A rebuild of a dataset at one level is in flight, and the cache, which the
\* rebuild had emptied, holds a payload of another level that a call running
\* since before the rebuild has fetched.
SupersededPayloadCached ==
    \E p \in Passes, q \in TaskIds, K \in loadedFeatures :
        /\ passes[p].st = "await" /\ passes[p].mode = "rebuild"
        /\ passes[p].map = K[1] /\ passes[p].newLOD # K[3]
        /\ tasks[q].tainted /\ tasks[q].mapId = K[1] /\ tasks[q].lod = K[3]
        /\ K[2] \in tasks[q].ok

\* C13: a key enters the cache only in a step in which a fetch of that key
\* settles with success; a fetch never settles on a key that is in the cache
\* (no entry is written twice); and a key leaves the cache only in a step in
\* which clearMap of its own dataset runs.
CacheWriteOnce ==
    [][/\ \A K \in loadedFeatures' \ loadedFeatures :
             /\ K \notin lastFailed'
             /\ \E f \in fetches \ fetches' : f[1] = K
       /\ \A f \in fetches \ fetches' : f[1] \notin loadedFeatures
       /\ \A K \in loadedFeatures \ loadedFeatures' : K[1] \in cleared']_vars

\* clearMap of one dataset has just run, a fetch of that dataset is in flight,
\* and a payload of the other dataset is still in the cache.
EntryOutlivesOtherClear ==
    \E m \in cleared :
        /\ \E f \in fetches : f[1][1] = m
        /\ \E K \in loadedFeatures : K[1] # m

\* C14: the pending table holds a key exactly while a fetch of that key is in
\* flight, and then it holds the promise of that fetch; with no fetch in
\* flight the table is empty.
PendingIffInFlight ==
    /\ \A K \in Keys :
          /\ pendingLoads[K] # 0 <=> FetchesOf(K) # {}
          /\ pendingLoads[K] # 0 => <<K, pendingLoads[K]>> \in fetches
    /\ fetches = {} => \A K \in Keys : pendingLoads[K] = 0

\* Every fetch has settled, one with a payload and one with a failure, and
\* the pending table is empty.
AllSettledAfterFailure ==
    /\ fetches = {}
    /\ lastFailed # {}
    /\ loadedFeatures # {}
    /\ \A K \in Keys : pendingLoads[K] = 0

Uncached(m, x, L) == \A l \in LODs : l >= L => KeyOf(m, x, l) \notin loadedFeatures

\* r lists, in the order of ids, the indices of the ids at the positions that
\* are not cached at any level from L up.
IsFetchSetOf(r, ids, m, L) ==
    \E pos \in [1..Len(r) -> 1..Len(ids)] :
        /\ \A j, k \in 1..Len(r) : j < k => pos[j] < pos[k]
        /\ {pos[j] : j \in 1..Len(r)} = {k \in 1..Len(ids) : Uncached(m, ids[k][2], L)}
        /\ \A j \in 1..Len(r) : r[j] = ids[pos[j]][2]

\* C15: getFeaturesToLoad returns exactly the indices of ids, in input order,
\* that the cache holds at no level from targetLOD to 2; a feature cached at
\* level 2 is excluded for every target level, and a feature cached only
\* below the target level is returned.
FetchSetIsUncachedAtOrAbove ==
    query.op = "getFeaturesToLoad" =>
        /\ IsFetchSetOf(answer, query.ids, query.mapId, query.lod)
        /\ \A k \in 1..Len(query.ids) :
              LET x == query.ids[k][2] IN
              /\ KeyOf(query.mapId, x, 2) \in loadedFeatures => x \notin SeqToSet(answer)
              /\ (\A l \in LODs : KeyOf(query.mapId, x, l) \in loadedFeatures => l < query.lod)
                    => x \in SeqToSet(answer)

\* A call with target level 2 and the ids of two features, the first cached
\* at level 2 and the second only at level 1, returned the second alone.
CachedAtTwoAndOnlyAtOne ==
    /\ query.op = "getFeaturesToLoad"
    /\ query.lod = 2
    /\ Len(query.ids) = 2
    /\ KeyOf(query.mapId, query.ids[1][2], 2) \in loadedFeatures
    /\ KeyOf(query.mapId, query.ids[2][2], 1) \in loadedFeatures
    /\ KeyOf(query.mapId, query.ids[2][2], 2) \notin loadedFeatures
    /\ answer = <<query.ids[2][2]>>

Committed == SeqToSet(labelMarkers)
Candidates == SeqToSet(allLabels)
EntryAt(id) == CHOOSE k \in 1..Len(allLabels) : allLabels[k] = id
\* The candidates for which the pass computes a box: they pass the viewport
\* test and their geometry is read without an error.
Boxed(id) == InViewport(view, LabelInfo(id)) /\ LabelInfo(id).err = "none"
Box(id) == BoxOf(view, LabelInfo(id), textScale)
\* One rectangle lies strictly to the left of, to the right of, above or
\* below the other.
Apart(b, c) ==
    \/ b.right < c.left
    \/ c.right < b.left
    \/ b.bottom < c.top
    \/ c.bottom < b.top
\* a is processed before b: higher priority, or equal priority and met first.
Before(a, b) ==
    \/ LabelInfo(a).priority > LabelInfo(b).priority
    \/ LabelInfo(a).priority = LabelInfo(b).priority /\ EntryAt(a) < EntryAt(b)
PassCompleted == labelsEnabled /\ ~labelError

\* C16: no two labels committed by one updateLabels pass overlap: of every
\* two committed boxes one lies strictly to the left of, to the right of,
\* above or below the other.
NoTwoLabelsOverlap ==
    \A i, j \in 1..Len(labelMarkers) :
        i # j => Apart(Box(labelMarkers[i]), Box(labelMarkers[j]))

\* Two labels are committed and a third candidate, whose box only touches the
\* box of a committed one, was dropped.
TouchingLabelDropped ==
    /\ Len(labelMarkers) = 2
    /\ \E a \in Candidates \ Committed, c \in Committed :
          /\ Boxed(a)
          /\ ~Apart(Box(a), Box(c))
          /\ ~OverlapsStrictly(Box(a), Box(c))

\* C17 as claimed: of two candidates with overlapping computed boxes only the
\* one that is earlier in the priority order is committed.
OnlyHigherPriorityCommitted ==
    PassCompleted =>
        \A a, b \in Candidates :
            (Boxed(a) /\ Boxed(b) /\ Before(a, b) /\ ~Apart(Box(a), Box(b))) =>
                a \in Committed /\ b \notin Committed

\* C17 as amended: labels are committed in priority order, ties in encounter
\* order, each at most once; of two candidates with overlapping boxes the
\* later one is committed only if the earlier one was dropped, and the earlier
\* one is dropped only because it overlaps a committed label that is still
\* earlier in the order (so of two such candidates alone the earlier is
\* committed and the later dropped).
LaterOverlappingYields ==
    PassCompleted =>
        /\ \A i, j \in 1..Len(labelMarkers) :
              i < j => Before(labelMarkers[i], labelMarkers[j])
        /\ \A a, b \in Candidates :
              (Boxed(a) /\ Boxed(b) /\ Before(a, b) /\ ~Apart(Box(a), Box(b))) =>
                  /\ a \notin Committed \/ b \notin Committed
                  /\ a \notin Committed =>
                        \E c \in Committed : Before(c, a) /\ ~Apart(Box(c), Box(a))

\* Three candidates in a chain: the middle one overlaps both others and was
\* dropped for the first, and the last one, which overlaps only the middle
\* one, is committed.
LowerPriorityCommittedOverDropped ==
    /\ PassCompleted
    /\ \E a, b \in Candidates :
          /\ Boxed(a) /\ Boxed(b) /\ Before(a, b) /\ ~Apart(Box(a), Box(b))
          /\ a \notin Committed
          /\ b \in Committed

\* C18: when no two computed label boxes overlap, the pass commits every
\* candidate it computed a box for.
AllCommittedWhenNoOverlap ==
    (/\ PassCompleted
     /\ \A a, b \in Candidates : (a # b /\ Boxed(a) /\ Boxed(b)) => Apart(Box(a), Box(b)))
        => \A a \in Candidates : Boxed(a) => a \in Committed

\* Three candidates with boxes that are pairwise apart are all committed.
ThreeApartCommitted ==
    /\ PassCompleted
    /\ Len(allLabels) = 3
    /\ \A a \in Candidates : Boxed(a)
    /\ Len(labelMarkers) = 3

\* C19 as claimed: no committed label has its anchor outside the viewport.
CommittedAnchorsInViewport ==
    \A a \in Committed : Contains(view, LabelInfo(a).anchor)

\* C19 as amended: a committed label of a point feature has its anchor in the
\* viewport; a committed label of a polygon feature belongs to a layer whose
\* bounds intersect the viewport, wherever its anchor lies.
CommittedPassViewportTest ==
    \A a \in Committed :
        /\ LabelInfo(a).kind \in {"polygon", "point"}
        /\ LabelInfo(a).kind = "point" => Contains(view, LabelInfo(a).anchor)
        /\ LabelInfo(a).kind = "polygon" => Intersects(view, LabelInfo(a).bbox)

\* A polygon label is committed with its anchor outside the viewport, and a
\* point candidate outside the viewport was skipped.
PolygonAnchorOutsideCommitted ==
    /\ \E a \in Committed :
          LabelInfo(a).kind = "polygon" /\ ~Contains(view, LabelInfo(a).anchor)
    /\ \E b \in Candidates \ Committed :
          LabelInfo(b).kind = "point" /\ ~Contains(view, LabelInfo(b).anchor)

\* C20: an error in reading the geometry of one candidate skips that
\* candidate alone: the pass does not throw, and every candidate with a
\* computed box that is not committed overlaps a committed label.
GeometryErrorSkipsOneCandidate ==
    /\ ~labelError
    /\ labelsEnabled =>
          \A a \in Candidates \ Committed :
              Boxed(a) => \E c \in Committed : ~Apart(Box(c), Box(a))

\* C21: after an updateLabels call the labels on the map are those of that
\* call alone: none when labels are disabled; otherwise each is a current
\* candidate that passes the viewport test in the current view, none twice;
\* and no collision box of an earlier pass is left, so a candidate with a
\* box that is not on the map overlaps a label that is (after a pass that ran
\* to its end).
LabelsAreOfThisPass ==
    /\ ~labelsEnabled => labelMarkers = <<>>
    /\ \A i \in 1..Len(labelMarkers) :
          /\ labelMarkers[i] \in Candidates
          /\ Boxed(labelMarkers[i])
          /\ \A j \in 1..Len(labelMarkers) : labelMarkers[j] = labelMarkers[i] => i = j
    /\ PassCompleted =>
          \A a \in Candidates \ Committed :
              Boxed(a) => \E c \in Committed : ~Apart(Box(c), Box(a))

\* The pass found a label on the map, took it off, and committed a label
\* whose box overlaps the box of the one it took off.
StaleLabelReplaced ==
    \E x \in SeqToSet(labelsBefore) \ Committed, y \in Committed \ SeqToSet(labelsBefore) :
        /\ x \in Candidates
        /\ ~Apart(Box(x), Box(y))

\* C22: supportsLOD(mapId) returns true exactly when the index is loaded and
\* the list of the dataset holds strictly more than FEATURE_THRESHOLD records:
\* 120 records give true, 10 give false, exactly 50 gives false.
SupportsLODStrictlyAboveThreshold ==
    [][\A m \in QueryIds :
          SupportsLODCall(m) =>
              answer' = (initialized /\ GetFeatureCount(m) > FEATURE_THRESHOLD)]_vars

\* The rectangle V grown by 20% of its width to the west and to the east and
\* by 20% of its height to the south and to the north, in tenths of the unit.
Expanded(V) ==
    <<10 * V[1] - 2 * (V[3] - V[1]), 10 * V[2] - 2 * (V[4] - V[2]),
      10 * V[3] + 2 * (V[3] - V[1]), 10 * V[4] + 2 * (V[4] - V[2])>>
\* The closed box shares a point with the closed rectangle E (in tenths).
MeetsExpanded(box, E) ==
    /\ 10 * box[3] >= E[1] /\ 10 * box[1] <= E[3]
    /\ 10 * box[4] >= E[2] /\ 10 * box[2] <= E[4]
IndexList(m) ==
    IF m \in DOMAIN spatialIndexByMap
    THEN [k \in 1..Len(spatialIndexByMap[m]) |-> Record(spatialIndexByMap[m][k])]
    ELSE <<>>

\* C23: getFeaturesInBounds(D, V) returns exactly the index entries of D, in
\* index order, whose bbox meets V expanded by 20% on each side, touching
\* included; the viewport [-7.0,54.0,-6.0,54.5] expands to
\* [-7.2,53.9,-5.8,54.6].
QueryIsBruteForceOverBufferedViewport ==
    [][/\ Expanded(<<-70, 540, -60, 545>>) = <<-720, 5390, -580, 5460>>
       /\ \A m \in QueryIds, V \in QueryViews :
             GetFeaturesInBoundsCall(m, V) =>
                 answer' = SelectSeq(IndexList(m), LAMBDA f : MeetsExpanded(f.bbox, Expanded(V)))]_vars

\* A query on the loaded index returned a record that lies in the buffer
\* only, and one that only touches the expanded viewport, and left out a
\* record just beyond it.
BufferOnlyAndTouchingReturned ==
    /\ query.op = "getFeaturesInBounds"
    /\ query.mapId = "a"
    /\ query.bounds = <<100, 100, 110, 110>>
    /\ \E i, j \in 1..Len(answer) : answer[i].id = <<"a", 102>> /\ answer[j].id = <<"a", 103>>
    /\ \A i \in 1..Len(answer) : answer[i].id # <<"a", 104>>
    /\ \E k \in 1..Len(IndexList("a")) : IndexList("a")[k].id = <<"a", 104>>

\* C24: getLODForZoom(z) is 2 for z >= 12, 1 for 8 <= z < 12 and 0 for z < 8:
\* always one of 0, 1, 2, and never lower for a higher zoom.
LevelForZoomIsAStepFunction ==
    query.op = "getLODForZoom" =>
        /\ query.zoom >= 12 => answer = 2
        /\ (8 <= query.zoom /\ query.zoom < 12) => answer = 1
        /\ query.zoom < 8 => answer = 0
        /\ answer \in {0, 1, 2}
        /\ \A z \in ZoomLevels : z >= query.zoom => GetLODForZoom(z) >= answer

\* The call for zoom 12, the lowest zoom of full detail.
ZoomTwelveAsked ==
    query.op = "getLODForZoom" /\ query.zoom = 12 /\ answer = 2

\* C25: while the index is not loaded, because the manifest has not arrived
\* or could not be loaded, no init() call ends with an error, supportsLOD
\* returns false for every dataset, and loadLayer asks for the dataset's file
\* and starts no per-feature load; a file that cannot be loaded ends the load
\* without an error for the caller.
ManifestAbsenceDegrades ==
    [][/\ \A k \in InitIds : inits'[k] \in {"idle", "fetch", "json", "returned"}
       /\ \A m \in QueryIds : (SupportsLODCall(m) /\ ~initialized) => answer' = FALSE
       /\ \A m \in MapIds :
             /\ (~initialized /\ layerStates[m].st = "none" /\ layerStates'[m].st # "none") =>
                    /\ loads'[m].st = "file"
                    /\ lodLayers' = lodLayers
                    /\ fetches' = fetches
                    /\ pendingLoads' = pendingLoads
             /\ loads'[m].st \in {"idle", "file", "await"}]_vars

\* Every init() call has returned without loading the index, which holds 60
\* records of a dataset from a manifest that broke off; supportsLOD has
\* answered false for that dataset, and its layer was loaded from its file.
WholesaleAfterManifestFailure ==
    /\ ~initialized
    /\ inits[1] = "returned"
    /\ \A k \in InitIds : inits[k] \in {"idle", "returned"}
    /\ "a" \in DOMAIN spatialIndexByMap
    /\ query = [op |-> "supportsLOD", mapId |-> "a"]
    /\ answer = FALSE
    /\ layerStates["a"].st = "loaded"
    /\ layerStates["a"].geoJsonLayers = SetToBag({WholeFile("a")})
    /\ lodLayers = <<>>

\* C26: for a dataset id that has no list in the index, getFeatureCount
\* returns 0 and getFeaturesInBounds returns an empty list, and neither call
\* changes anything of the loader or of the controller.
UnknownIdIsNotAnError ==
    [][\A m \in QueryIds :
          m \notin DOMAIN spatialIndexByMap =>
              /\ GetFeatureCountCall(m) =>
                    /\ answer' = 0
                    /\ UNCHANGED <<loaderVars, view, zoom, layerStates, lodLayers, currentLOD,
                                   passes, loads, events, labelVars, indexVars, orphans, timeSlider>>
              /\ \A V \in QueryViews :
                    GetFeaturesInBoundsCall(m, V) =>
                        /\ answer' = <<>>
                        /\ UNCHANGED <<loaderVars, view, zoom, layerStates, lodLayers, currentLOD,
                                       passes, loads, events, labelVars, indexVars, orphans, timeSlider>>]_vars

\* The index is loaded with lists of other datasets, and the count of a
\* dataset that is not in it was asked for.
UnknownIdCounted ==
    /\ initialized
    /\ DOMAIN spatialIndexByMap = MapIds
    /\ query = [op |-> "getFeatureCount", mapId |-> "c"]
    /\ answer = 0

OperatesOn(d) ==
    \/ d \in cleared'
    \/ \E f \in fetches \ fetches' : f[1][1] = d
    \/ \E c \in TaskIds :
          /\ tasks'[c] # tasks[c]
          /\ \/ tasks[c].st # "idle" /\ tasks[c].mapId = d
             \/ tasks'[c].st # "idle" /\ tasks'[c].mapId = d
    \/ layerStates[d].st = "none" /\ layerStates'[d].st # "none"

\* C27: a step that clears, loads or settles fetches of other datasets only
\* leaves the cache entries, the layer (geometry and label entries) and the
\* currentLOD of dataset d as they are.
OtherDatasetsUntouched ==
    [][\A d \in MapIds :
          ~OperatesOn(d) =>
              /\ {K \in loadedFeatures' : K[1] = d} = {K \in loadedFeatures : K[1] = d}
              /\ layerStates'[d] = layerStates[d]
              /\ currentLOD'[d] = currentLOD[d]]_vars

\* The latest step cleared dataset a for a rebuild while dataset b had cache
\* entries and geometry on the map: b has them still.
ClearedBesideLoadedDataset ==
    /\ cleared = {"a"}
    /\ \E r \in rebuilt : r.map = "a"
    /\ \A K \in loadedFeatures : K[1] = "b"
    /\ loadedFeatures # {}
    /\ layerStates["b"].st = "loaded"
    /\ layerStates["b"].geoJsonLayers # EmptyBag
    /\ currentLOD["b"] \in LODs


\* The wrap width the pass chose for a committed label, the width of the
\* longest word of its text, and that cap of 180 pixels, in hundredths of a
\* pixel.
WrapWidth(id) == MaxWidth(LabelInfo(id).words, FontSize(textScale))
LongestWordWidth(id) == LongestWord(LabelInfo(id).words) * CharWidth(FontSize(textScale))
WidthCap == 180 * 100
WordMargin == 10 * 100

\* C29 as claimed: the wrap width of a label is never below the width of the
\* longest word of its text and never above 180 pixels.
WrapWidthWithinWordAnd180 ==
    \A id \in Committed :
        /\ WrapWidth(id) >= LongestWordWidth(id)
        /\ WrapWidth(id) <= WidthCap

\* C29 as amended: the wrap width of a label is never below the width of the
\* longest word of its text plus 10 pixels; it is the rounded ideal width
\* capped at 180 pixels whenever that is no less than the longest word's
\* width plus 10 pixels, and so it is above 180 pixels only when the longest
\* word's width plus 10 pixels is, and then it is exactly that.
WrapWidthWordFirstThen180 ==
    \A id \in Committed :
        LET ideal == 100 * IdealWidthUpTo180(LabelInfo(id).words, FontSize(textScale))
            floor == LongestWordWidth(id) + WordMargin
        IN /\ WrapWidth(id) >= floor
           /\ ideal <= WidthCap
           /\ ideal >= floor => WrapWidth(id) = ideal
           /\ WrapWidth(id) > WidthCap => floor > WidthCap /\ WrapWidth(id) = floor

\* C29 witness: at text scale 200 a pass committed the label whose single
\* word of eleven letters is 171.6 pixels wide, with a wrap width of 181.6
\* pixels, and a label of five words whose wrap width is the cap of 180.
LongWordWiderThan180 ==
    /\ textScale = 200
    /\ PassCompleted
    /\ {"L", "M"} \subseteq Committed
    /\ WrapWidth("L") = 18160
    /\ WrapWidth("M") = WidthCap


\* The number of geometries the layer of dataset m holds for feature index i,
\* over all detail levels.
GeometriesOf(m, i) ==
    LET held == {K \in BagToSet(layerStates[m].geoJsonLayers) : K[2] = i}
        RECURSIVE Total(_)
        Total(S) == IF S = {} THEN 0
                    ELSE LET K == CHOOSE K \in S : TRUE
                         IN CopiesIn(K, layerStates[m].geoJsonLayers) + Total(S \ {K})
    IN Total(held)

\* C30: under any interleaving of moveend and zoomend handlers the layer of a
\* dataset never holds two geometries for the same feature index.
EachFeatureRenderedAtMostOnce ==
    \A m \in MapIds :
        \A K \in BagToSet(layerStates[m].geoJsonLayers) : GeometriesOf(m, K[2]) <= 1


\* The candidates the pass came to: those before the first candidate, in the
\* priority order, whose bounds lookup throws (all of them when none does).
ReachedByPass(id) ==
    \A g \in Candidates :
        (LabelInfo(g).kind = "polygon" /\ LabelInfo(g).err = "bounds") => Before(id, g)

\* C36: label placement is greedy-maximal: at the end of a pass, every
\* candidate that passed the viewport test and raised no error but was not
\* committed overlaps the box of a committed candidate that precedes it in
\* the priority order.
PlacementIsGreedyMaximal ==
    labelsEnabled =>
        \A a \in Candidates \ Committed :
            (ReachedByPass(a) /\ Boxed(a)) =>
                \E c \in Committed :
                    /\ Before(c, a)
                    /\ LabelInfo(c).priority >= LabelInfo(a).priority
                    /\ ~Apart(Box(c), Box(a))

\* A pass over three candidates committed the first and the last in the
\* priority order and dropped the one between them, which overlaps the first;
\* the last has a lower priority than the dropped one.
MiddleDroppedForTheFirst ==
    /\ PassCompleted
    /\ Len(labelMarkers) = 2
    /\ \E a \in Candidates \ Committed :
          /\ Boxed(a)
          /\ Before(labelMarkers[1], a) /\ Before(a, labelMarkers[2])
          /\ LabelInfo(a).priority > LabelInfo(labelMarkers[2]).priority
          /\ ~Apart(Box(labelMarkers[1]), Box(a))


\* C34: the index is built exactly once: after any number of init() calls,
\* overlapping ones included, no manifest record is twice in the index list
\* of its dataset, and once the index is loaded every list is as one
\* manifest gives it.
IndexBuiltExactlyOnce ==
    /\ \A m \in DOMAIN spatialIndexByMap :
          \A i, j \in 1..Len(spatialIndexByMap[m]) :
              spatialIndexByMap[m][i] = spatialIndexByMap[m][j] => i = j
    /\ initialized =>
          \E body \in Bodies : spatialIndexByMap = IndexAfter(NoIndex, body)


\* Nothing is outstanding: no fetch is in flight and no call waits to go on
\* with the result of one.
Settled ==
    /\ fetches = {}
    /\ \A c \in TaskIds : tasks[c].st = "idle"
    /\ \A p \in Passes : passes[p].st = "idle"
    /\ \A l \in LoadIds : loads[l].st = "idle"

Rendered(m, x) == \E K \in BagToSet(layerStates[m].geoJsonLayers) : K[2] = x

\* C31: whenever an LOD dataset is loaded and visible and nothing is
\* outstanding, every feature in the buffered viewport that is cache-satisfied
\* at the dataset's current level is rendered in the dataset's layer, also
\* after unloadLayer and loadLayer while fetches of the dataset were in flight.
CachedInViewIsRendered ==
    Settled =>
        \A m \in MapIds :
            (layerStates[m].st = "loaded" /\ layerStates[m].visible) =>
                \A x \in VisibleNow(m) :
                    CacheSatisfied(m, x, currentLOD[m]) => Rendered(m, x)


\* The geometry of dataset m that is on the map: that of the groups, of the
\* registered state and of the orphan, that are added to the map.
OnMap(m) ==
    (IF layerStates[m].visible THEN layerStates[m].geoJsonLayers ELSE EmptyBag)
       (+) (IF orphans[m].visible THEN orphans[m].geoJsonLayers ELSE EmptyBag)

\* The label entries of dataset m that updateLabels collects (part_002:990-995).
LabelEntriesOf(m) ==
    IF layerStates[m].st = "loaded" /\ layerStates[m].visible
    THEN layerStates[m].labelEntries
    ELSE EmptyBag

LoadsInProgress(m) == {l \in {m, StaleLoad(m)} : loads[l].st # "idle"}

\* C35: loadLayer for a dataset that has a layer state starts no load and
\* creates no state: at any time there is at most one load in progress per
\* dataset id.
OneLoadPerDataset ==
    \A m \in MapIds :
        Cardinality(LoadsInProgress(m)) <= 1


\* C32: once every fetch has settled and every pass has run to its end, the
\* currentLOD of every visible LOD dataset is the level of the map's current
\* zoom, also when passes started at different zooms overlapped and completed
\* out of order.
SettledLevelIsLevelOfZoom ==
    Settled =>
        \A m \in SeqToSet(lodLayers) :
            (layerStates[m].st = "loaded" /\ layerStates[m].visible) =>
                currentLOD[m] = GetLODForZoom(zoom)


\* C37: while a layer swap of applyDateChange is in progress (a call of
\* applyDateChange is suspended in a loadLayer), _applyingDateChange is true,
\* also when a second applyDateChange started before the first has finished.
SwapInProgressIsGuarded ==
    (\E k \in 1..Len(timeSlider.swaps) : timeSlider.swaps[k].kind = "apply")
        => timeSlider.applyingDateChange

\* C38: whenever the dates list is non-empty, currentIndex is within
\* 0..dates.length - 1 after every step of the slider, and stepBackward at
\* index 0 and stepForward at the last index change nothing of the slider:
\* no date, no index, no saved state, no layer and no swap.
IndexInRangeAndEndsInert ==
    [][/\ timeSlider'.dates # <<>>
             => timeSlider'.currentIndex \in 0..(Len(timeSlider'.dates) - 1)
       /\ StepBackward /\ timeSlider.currentIndex = 0 => timeSlider' = timeSlider
       /\ StepForward /\ timeSlider.currentIndex = Len(timeSlider.dates) - 1
             => timeSlider' = timeSlider]_vars

\* The user has moved the slider to the oldest of several dates.
MovedToTheOldestDate ==
    /\ Len(timeSlider.dates) >= 2
    /\ timeSlider.currentIndex = 0
    /\ ~timeSlider.preSliderState.null

====
